---- MODULE Spec2Model ----
(***************************************************************************)
(* Booking transaction of the clinic voice-assistant backend               *)
(* (app/services/appointments.py, app/services/patients.py).               *)
(*                                                                         *)
(* The store (the Supabase tables "patients" and "appointments") is the    *)
(* only shared state.  Every request handler is a process; one action of   *)
(* the model is one store call of the handler together with the local      *)
(* computation that follows it, so handlers interleave between store       *)
(* calls, as they do when several workers serve the same database.         *)
(***************************************************************************)
EXTENDS Integers, Sequences, FiniteSets, TLC

(***************************************************************************)
(* Bounds of the model.                                                    *)
(***************************************************************************)
\* concurrent request handlers; each serves one call
NumProcs == 2

(***************************************************************************)
(* The finite universe the requests are drawn from.                        *)
(***************************************************************************)
Procs == 1..NumProcs
Clinics == {"cA", "cB"}
Doctors == {"dA", "dB"}
\* doctors.clinic_id: the clinic that owns each doctor row
DoctorClinic == [d \in Doctors |-> IF d = "dA" THEN "cA" ELSE "cB"]
\* the (clinic, doctor) pairs Book calls name: each clinic with its own doctor,
\* and clinic cA with the doctor of clinic cB
BookTargets == {<<"cA", "dA">>, <<"cB", "dB">>, <<"cA", "dB">>}
Phones == {"ph1"}
Dates == {1}
\* datetime.time values handed to the handlers
Times == {[hour |-> 10, minute |-> 0, second |-> 0, microsecond |-> 0],
          [hour |-> 10, minute |-> 15, second |-> 0, microsecond |-> 0]}
Reasons == {"r1"}
NoReason == "none"
\* AppointmentBase.duration_minutes default
DefaultDuration == 30

VARIABLES
    patients,       \* table "patients": sequence of rows, id = position
    appointments,   \* table "appointments": sequence of rows, id = position
    doctors,        \* table "doctors": doctor id -> row
    blocked_times,  \* table "blocked_times": sequence of rows
    pc,             \* per handler: the store call it is about to make
    req,            \* per handler: the arguments of the call it serves
    loc,            \* per handler: its local variables
    result,         \* per handler: the dict it returned
    call_logs,      \* table "call_logs": sequence of rows
    outbox,         \* the messages the SMS/WhatsApp provider accepted, in order
    settings        \* app.config.settings

vars == <<patients, appointments, doctors, blocked_times, pc, req, loc, result,
          call_logs, outbox, settings>>

(***************************************************************************)
(* Conversions at the store boundary.                                      *)
(***************************************************************************)
\* time.strftime("%H:%M:%S"): hour, minute, second; microseconds are dropped
StrfTime(t) == <<t.hour, t.minute, t.second>>

\* date.isoformat(): dates are day numbers, their ISO text orders the same way
IsoDate(d) == d

(***************************************************************************)
(* Time-of-day text.  A string is the sequence of its characters, so that  *)
(* parsing can fail as it does in the code.  A conversion yields           *)
(* [ok |-> TRUE, value |-> v], or Raised when the code raises.             *)
(***************************************************************************)
Digits == <<"0", "1", "2", "3", "4", "5", "6", "7", "8", "9">>

IsDigit(c) == \E i \in 1..Len(Digits) : Digits[i] = c

DigitValue(c) == (CHOOSE i \in 1..Len(Digits) : Digits[i] = c) - 1

Raised == [ok |-> FALSE]

Value(v) == [ok |-> TRUE, value |-> v]

\* str.split(sep): the pieces between the separators
RECURSIVE Split(_, _)
Split(str, sep) ==
    IF \E i \in 1..Len(str) : str[i] = sep
    THEN LET i == CHOOSE k \in 1..Len(str) :
                      str[k] = sep /\ \A j \in 1..(k - 1) : str[j] # sep
         IN  <<SubSeq(str, 1, i - 1)>> \o Split(SubSeq(str, i + 1, Len(str)), sep)
    ELSE <<str>>

\* the value of a run of decimal digits
RECURSIVE DecimalValue(_)
DecimalValue(str) ==
    IF str = << >> THEN 0
    ELSE 10 * DecimalValue(SubSeq(str, 1, Len(str) - 1)) + DigitValue(str[Len(str)])

\* int(str): ValueError unless str is a non-empty run of digits
ParseInt(str) ==
    IF Len(str) > 0 /\ \A i \in 1..Len(str) : IsDigit(str[i])
    THEN Value(DecimalValue(str))
    ELSE Raised

\* datetime.time(hour, minute): ValueError outside 0..23 and 0..59
MakeTime(hour, minute) ==
    IF hour \in 0..23 /\ minute \in 0..59
    THEN Value([hour |-> hour, minute |-> minute, second |-> 0, microsecond |-> 0])
    ELSE Raised

ParseHourMinute_DefaultOnError(str) ==
    LET parts == Split(str, ":") IN
    IF Len(parts) = 2 /\ ParseInt(parts[1]).ok /\ ParseInt(parts[2]).ok
       /\ MakeTime(ParseInt(parts[1]).value, ParseInt(parts[2]).value).ok
    THEN MakeTime(ParseInt(parts[1]).value, ParseInt(parts[2]).value)
    ELSE MakeTime(9, 0)

\* h, m = map(int, str.split(":")); time(h, m)
ParseHourMinute(str) ==
    LET parts == Split(str, ":") IN
    IF Len(parts) # 2 THEN Raised
    ELSE LET h == ParseInt(parts[1])
             m == ParseInt(parts[2])
         IN  IF h.ok /\ m.ok THEN MakeTime(h.value, m.value) ELSE Raised

\* time.fromisoformat(str) for the text forms HH:MM and HH:MM:SS
TimeFromIsoFormat(str) ==
    LET two(i) == IsDigit(str[i]) /\ IsDigit(str[i + 1])
        num(i) == 10 * DigitValue(str[i]) + DigitValue(str[i + 1])
    IN  IF Len(str) = 5 /\ two(1) /\ str[3] = ":" /\ two(4)
        THEN MakeTime(num(1), num(4))
        ELSE IF /\ Len(str) = 8 /\ two(1) /\ str[3] = ":" /\ two(4)
                /\ str[6] = ":" /\ two(7) /\ num(7) \in 0..59
        THEN MakeTime(num(1), num(4))
        ELSE Raised

\* time.fromisoformat(row["time"]) on a time column value
TimeFromColumn(col) ==
    [hour |-> col[1], minute |-> col[2], second |-> col[3], microsecond |-> 0]

\* _time_to_minutes
TimeToMinutes(t) == t.hour * 60 + t.minute

\* _minutes_to_time
MinutesToTime(minutes) == MakeTime(minutes \div 60, minutes % 60)

\* t.strftime("%H:%M")
StrfHourMinute(t) ==
    <<Digits[(t.hour \div 10) + 1], Digits[(t.hour % 10) + 1], ":",
      Digits[(t.minute \div 10) + 1], Digits[(t.minute % 10) + 1]>>

\* dict.get(key, default)
Get(dict, key, default) == IF key \in DOMAIN dict THEN dict[key] ELSE default

(***************************************************************************)
(* Rows and records.                                                       *)
(***************************************************************************)
NoRow == [clinic_id |-> "none", doctor_id |-> "none", patient_id |-> 0,
          date |-> 0, time |-> <<0, 0, 0>>, duration_minutes |-> 0,
          status |-> "none", confirmation_sent |-> FALSE,
          reminder_sent |-> FALSE, cancellation_reason |-> NoReason,
          cancelled_at |-> 0, rescheduled_at |-> 0]

NoReq == [op |-> "none", clinic_id |-> "none", doctor_id |-> "none",
          phone |-> "none", date |-> 0, time |-> <<0, 0, 0>>,
          duration_minutes |-> 0, appointment_id |-> 0, reason |-> NoReason]

NoLoc == [patient_id |-> 0, appointment_id |-> 0, appointment |-> NoRow]

NoResult == [success |-> FALSE, message |-> "none", appointment_id |-> 0]

\* the row book_appointment inserts (appointment_record)
AppointmentRecord(r, patient_id) ==
    [clinic_id |-> r.clinic_id, doctor_id |-> r.doctor_id,
     patient_id |-> patient_id, date |-> IsoDate(r.date),
     time |-> StrfTime(r.time),
     duration_minutes |-> r.duration_minutes, status |-> "scheduled",
     confirmation_sent |-> FALSE, reminder_sent |-> FALSE,
     cancellation_reason |-> NoReason, cancelled_at |-> 0,
     rescheduled_at |-> 0]

(***************************************************************************)
(* Store queries.                                                          *)
(***************************************************************************)
\* patients .eq(clinic_id) .eq(phone): ids of the matching rows
PatientsByPhone(clinic_id, phone) ==
    {i \in 1..Len(patients) :
        patients[i].clinic_id = clinic_id /\ patients[i].phone = phone}

\* response.data[0]: the first row of a non-empty answer
FirstId(ids) == CHOOSE i \in ids : \A j \in ids : i <= j

ExistingAtSlot_ScheduledOnly(doctor_id, date, time) ==
    {i \in 1..Len(appointments) :
        /\ appointments[i].doctor_id = doctor_id
        /\ appointments[i].date = date
        /\ appointments[i].time = time
        /\ appointments[i].status \in {"scheduled"}}

\* appointments .eq(doctor_id) .eq(date) .eq(time) .in_(status, active)
ExistingAtSlot(doctor_id, date, time) ==
    {i \in 1..Len(appointments) :
        /\ appointments[i].doctor_id = doctor_id
        /\ appointments[i].date = date
        /\ appointments[i].time = time
        /\ appointments[i].status \in {"scheduled", "confirmed"}}

AppointmentOfClinic_AnyClinic(appointment_id, clinic_id) ==
    {i \in 1..Len(appointments) : i = appointment_id}

\* appointments .eq(id) .eq(clinic_id)
AppointmentOfClinic(appointment_id, clinic_id) ==
    {i \in 1..Len(appointments) :
        i = appointment_id /\ appointments[i].clinic_id = clinic_id}

ExistingAtSlotExcept_OwnIncluded(doctor_id, date, time, appointment_id) ==
    ExistingAtSlot(doctor_id, date, time)

\* the reschedule conflict query: ExistingAtSlot with .neq(id, own id)
ExistingAtSlotExcept(doctor_id, date, time, appointment_id) ==
    {i \in ExistingAtSlot(doctor_id, date, time) : i # appointment_id}

(***************************************************************************)
(* check_doctor_availability, computed as the code computes it.            *)
(***************************************************************************)
\* doctor.get("slot_duration", 30)
DefaultSlotDuration == 30
\* doctor.get("buffer_time", 5)
DefaultBufferTime == 5
\* day_schedule.get("start", "09:00") and day_schedule.get("end", "17:00")
DefaultStart == <<"0", "9", ":", "0", "0">>
DefaultEnd == <<"1", "7", ":", "0", "0">>

DayNames == <<"sunday", "monday", "tuesday", "wednesday", "thursday",
              "friday", "saturday">>

\* target_date.strftime("%A").lower(); day 0 is a sunday
DayName(d) == DayNames[(d % 7) + 1]

\* doctors .eq(id) .eq(clinic_id)
DoctorOfClinic(doctor_id, clinic_id) ==
    {d \in DOMAIN doctors : d = doctor_id /\ doctors[d].clinic_id = clinic_id}

BookedSlots_AnyStatus(doctor_id, target_date, slot_duration) ==
    LET rows == SelectSeq(appointments,
                    LAMBDA a : /\ a.doctor_id = doctor_id
                               /\ a.date = IsoDate(target_date))
    IN  [i \in 1..Len(rows) |->
            LET start == TimeToMinutes(TimeFromColumn(rows[i].time)) IN
            [start |-> start,
             end |-> start + Get(rows[i], "duration_minutes", slot_duration)]]

\* appointments .eq(doctor_id) .eq(date) .in_(status, active), then the
\* booked_slots built from the rows
BookedSlots(doctor_id, target_date, slot_duration) ==
    LET rows == SelectSeq(appointments,
                    LAMBDA a : /\ a.doctor_id = doctor_id
                               /\ a.date = IsoDate(target_date)
                               /\ a.status \in {"scheduled", "confirmed"})
    IN  [i \in 1..Len(rows) |->
            LET start == TimeToMinutes(TimeFromColumn(rows[i].time)) IN
            [start |-> start,
             end |-> start + Get(rows[i], "duration_minutes", slot_duration)]]

\* break_slots; Raised when a break time does not parse
BreakSlots(break_times) ==
    LET parsed == [i \in 1..Len(break_times) |->
                      [start |-> TimeFromIsoFormat(break_times[i].start),
                       end |-> TimeFromIsoFormat(break_times[i].end)]]
    IN  IF \A i \in 1..Len(parsed) : parsed[i].start.ok /\ parsed[i].end.ok
        THEN Value([i \in 1..Len(parsed) |->
                       [start |-> TimeToMinutes(parsed[i].start.value),
                        end |-> TimeToMinutes(parsed[i].end.value)]])
        ELSE Raised

\* a timestamp is <<day, time of day>>; the order of timestamps
DatetimeLeq(a, b) ==
    \/ a[1] < b[1]
    \/ /\ a[1] = b[1]
       /\ \/ a[2].hour < b[2].hour
          \/ a[2].hour = b[2].hour /\ a[2].minute <= b[2].minute

Midnight == [hour |-> 0, minute |-> 0, second |-> 0, microsecond |-> 0]

\* blocked_times .eq(clinic_id) .or_(doctor_id.eq, doctor_id.is.null)
\* .gte(start_datetime, date) .lte(end_datetime, date + 1 day), then the
\* blocked_slots built from the time-of-day part of each timestamp
BlockedSlots(doctor_id, target_date, clinic_id) ==
    LET rows == SelectSeq(blocked_times,
                    LAMBDA b : /\ b.clinic_id = clinic_id
                               /\ b.doctor_id \in {doctor_id, "null"}
                               /\ DatetimeLeq(<<target_date, Midnight>>,
                                              b.start_datetime)
                               /\ DatetimeLeq(b.end_datetime,
                                              <<target_date + 1, Midnight>>))
    IN  [i \in 1..Len(rows) |->
            [start |-> TimeToMinutes(rows[i].start_datetime[2]),
             end |-> TimeToMinutes(rows[i].end_datetime[2])]]

Conflicts_Closed(slot_start, slot_end, occupied) ==
    \E i \in 1..Len(occupied) :
        ~(slot_end < occupied[i].start \/ slot_start > occupied[i].end)

\* not (slot_end <= booked["start"] or slot_start >= booked["end"])
Conflicts(slot_start, slot_end, occupied) ==
    \E i \in 1..Len(occupied) :
        ~(slot_end <= occupied[i].start \/ slot_start >= occupied[i].end)

AvailableSlots_ShiftOnReject(current_minutes, end_minutes, slot_duration, buffer_time, occupied) ==
    LET RECURSIVE scan(_)
        scan(current) ==
            IF current + slot_duration <= end_minutes
            THEN IF Conflicts(current, current + slot_duration, occupied)
                 THEN scan(current + 5)
                 ELSE <<current>> \o scan(current + slot_duration + buffer_time)
            ELSE << >>
    IN  scan(current_minutes)

AvailableSlots_NoBuffer(current_minutes, end_minutes, slot_duration, buffer_time, occupied) ==
    LET RECURSIVE scan(_)
        scan(current) ==
            IF current + slot_duration <= end_minutes
            THEN (IF Conflicts(current, current + slot_duration, occupied)
                  THEN << >> ELSE <<current>>)
                 \o scan(current + slot_duration)
            ELSE << >>
    IN  scan(current_minutes)

\* the while loop: the slot starts accepted from current_minutes on
RECURSIVE AvailableSlots(_, _, _, _, _)
AvailableSlots(current_minutes, end_minutes, slot_duration, buffer_time, occupied) ==
    IF current_minutes + slot_duration <= end_minutes
    THEN (IF Conflicts(current_minutes, current_minutes + slot_duration, occupied)
          THEN << >>
          ELSE <<current_minutes>>)
         \o AvailableSlots(current_minutes + slot_duration + buffer_time,
                           end_minutes, slot_duration, buffer_time, occupied)
    ELSE << >>

Unavailable(message) == [available |-> FALSE, slots |-> << >>, message |-> message]

DayEnabled_DefaultTrue(day_schedule) == Get(day_schedule, "enabled", TRUE)

\* day_schedule.get("enabled", False)
DayEnabled(day_schedule) == Get(day_schedule, "enabled", FALSE)

\* the dict check_doctor_availability returns
AvailabilityResult(doctor_id, target_date, clinic_id) ==
    IF DoctorOfClinic(doctor_id, clinic_id) = {}
    THEN Unavailable("Doctor not found")
    ELSE
    LET doctor == doctors[doctor_id] IN
    IF ~Get(doctor, "is_active", TRUE)
    THEN Unavailable("Doctor is not active")
    ELSE
    LET day_schedule == Get(Get(doctor, "working_hours", << >>),
                            DayName(target_date), << >>) IN
    IF ~DayEnabled(day_schedule)
    THEN Unavailable("Doctor not available on this day")
    ELSE
    LET start_time == ParseHourMinute(Get(day_schedule, "start", DefaultStart))
        end_time == ParseHourMinute(Get(day_schedule, "end", DefaultEnd))
        slot_duration == Get(doctor, "slot_duration", DefaultSlotDuration)
        buffer_time == Get(doctor, "buffer_time", DefaultBufferTime)
        break_slots == BreakSlots(Get(doctor, "break_times", << >>))
    IN
    IF ~(start_time.ok /\ end_time.ok /\ break_slots.ok)
    THEN Unavailable("Error checking availability")
    ELSE
    LET occupied == BookedSlots(doctor_id, target_date, slot_duration)
                    \o break_slots.value
                    \o BlockedSlots(doctor_id, target_date, clinic_id)
        available_slots == AvailableSlots(TimeToMinutes(start_time.value),
                                          TimeToMinutes(end_time.value),
                                          slot_duration, buffer_time, occupied)
    IN  [available |-> Len(available_slots) > 0,
         slots |-> [i \in 1..Len(available_slots) |->
                       StrfHourMinute(MinutesToTime(available_slots[i]).value)],
         message |-> IF Len(available_slots) > 0
                     THEN "Found available slots" ELSE "No available slots"]

(***************************************************************************)
(* Guards and update payloads of the handlers.                             *)
(***************************************************************************)
CannotCancel_CancelledOnly(status) == status \in {"cancelled"}

\* cancel_appointment: current_status in ["cancelled", "completed", "no_show"]
CannotCancel(status) == status \in {"cancelled", "completed", "no_show"}

CannotReschedule_CancelledOnly(status) == status \in {"cancelled"}

\* reschedule_appointment: current_status in ["cancelled", "completed", "no_show"]
CannotReschedule(status) == status \in {"cancelled", "completed", "no_show"}

\* cancel_appointment's update_data applied to a row; cancelled_at counts the
\* writes: every write stores a new datetime.now()
CancelUpdateData(row, r) ==
    [row EXCEPT !.status = "cancelled",
                !.cancellation_reason = r.reason,
                !.cancelled_at = @ + 1]

RescheduleUpdateData_ResetsBothFlags(row, r) ==
    [row EXCEPT !.date = IsoDate(r.date),
                !.time = StrfTime(r.time),
                !.rescheduled_at = 1,
                !.reminder_sent = FALSE,
                !.confirmation_sent = FALSE]

\* reschedule_appointment's update_data applied to a row
RescheduleUpdateData(row, r) ==
    [row EXCEPT !.date = IsoDate(r.date),
                !.time = StrfTime(r.time),
                !.rescheduled_at = 1,
                !.reminder_sent = FALSE]

(***************************************************************************)
(* Initial state: the tables as a test fixture leaves them (at most one    *)
(* appointment, of clinic cA, with its patient), every handler idle.       *)
(***************************************************************************)
\* <<status, confirmation_sent, reminder_sent>> of the appointment already stored
InitialFlags ==
    {<<"scheduled", FALSE, FALSE>>, <<"confirmed", TRUE, TRUE>>,
     <<"completed", TRUE, TRUE>>, <<"no_show", TRUE, FALSE>>}

InitialAppointments ==
    {<< >>} \cup
    {<<[clinic_id |-> "cA", doctor_id |-> "dA", patient_id |-> 1,
        date |-> 1, time |-> <<10, 0, 0>>, duration_minutes |-> DefaultDuration,
        status |-> f[1], confirmation_sent |-> f[2], reminder_sent |-> f[3],
        cancellation_reason |-> NoReason, cancelled_at |-> 0,
        rescheduled_at |-> 0]>> : f \in InitialFlags}

\* no call logged, no message sent, the webhook secret configured
Quiet ==
    /\ call_logs = << >>
    /\ outbox = << >>
    /\ settings = [vapi_webhook_secret |-> "secret"]

\* the handlers idle, nothing received or returned yet
HandlersIdle ==
    /\ pc = [p \in Procs |-> "idle"]
    /\ req = [p \in Procs |-> NoReq]
    /\ loc = [p \in Procs |-> NoLoc]
    /\ result = [p \in Procs |-> NoResult]

\* a doctor row with the fields check_doctor_availability reads: monday
\* 09:00-17:00, 30-minute slots, no buffer, no breaks
StandardDoctor(d) ==
    [id |-> d, clinic_id |-> DoctorClinic[d], is_active |-> TRUE,
     working_hours |-> [monday |-> [enabled |-> TRUE, start |-> DefaultStart,
                                    end |-> DefaultEnd]],
     slot_duration |-> 30, buffer_time |-> 0, break_times |-> << >>]

StandardDoctors == [d \in Doctors |-> StandardDoctor(d)]

Init ==
    /\ Quiet
    /\ appointments \in InitialAppointments
    /\ patients = IF appointments = << >> THEN << >>
                  ELSE <<[clinic_id |-> "cA", phone |-> "ph1"]>>
    /\ doctors = StandardDoctors
    /\ blocked_times = << >>
    /\ HandlersIdle

(***************************************************************************)
(* Control flow of a handler.                                              *)
(***************************************************************************)
\* the handler is entered with arguments r and makes its first store call
Enter(p, label, r, l) ==
    /\ pc' = [pc EXCEPT ![p] = label]
    /\ req' = [req EXCEPT ![p] = r]
    /\ loc' = [loc EXCEPT ![p] = l]
    /\ UNCHANGED <<result, doctors, blocked_times, call_logs, outbox, settings>>

\* the handler moves on to its next store call with locals l
Goto(p, label, l) ==
    /\ pc' = [pc EXCEPT ![p] = label]
    /\ loc' = [loc EXCEPT ![p] = l]
    /\ UNCHANGED <<req, result, doctors, blocked_times, call_logs, outbox, settings>>

\* the handler, called with arguments r, returns its dict; its locals are gone
Returns(p, r, res) ==
    /\ pc' = [pc EXCEPT ![p] = "done"]
    /\ req' = [req EXCEPT ![p] = r]
    /\ result' = [result EXCEPT ![p] = res]
    /\ loc' = [loc EXCEPT ![p] = NoLoc]
    /\ UNCHANGED <<doctors, blocked_times, call_logs, outbox, settings>>

Failure(message) == [success |-> FALSE, message |-> message, appointment_id |-> 0]

Success(message, appointment_id) ==
    [success |-> TRUE, message |-> message, appointment_id |-> appointment_id]

NotifiedResult_FailsUndelivered(delivered, message, appointment_id) ==
    IF delivered THEN Success(message, appointment_id)
    ELSE Failure("Error sending notification")

\* the dict returned after the notifier ran inside its own try/except: a
\* notifier that raised or reported failure is logged and the success dict is
\* returned all the same
NotifiedResult(delivered, message, appointment_id) ==
    Success(message, appointment_id)

(***************************************************************************)
(* book_appointment                                                        *)
(***************************************************************************)
\* entry and create_or_get_by_phone's select on patients
BookLookupPatient(p) ==
    /\ pc[p] = "idle"
    /\ \E cd \in BookTargets, ph \in Phones, dt \in Dates, t \in Times :
          LET found == PatientsByPhone(cd[1], ph)
              r == [NoReq EXCEPT !.op = "book", !.clinic_id = cd[1],
                                 !.doctor_id = cd[2],
                                 !.phone = ph, !.date = dt, !.time = t,
                                 !.duration_minutes = DefaultDuration]
          IN  IF found # {}
              THEN Enter(p, "book_check",
                         r, [NoLoc EXCEPT !.patient_id = FirstId(found)])
              ELSE Enter(p, "book_patient_insert", r, NoLoc)
    /\ UNCHANGED <<patients, appointments>>

\* create_or_get_by_phone's insert of a new patient row
BookInsertPatient(p) ==
    /\ pc[p] = "book_patient_insert"
    /\ patients' = Append(patients,
                          [clinic_id |-> req[p].clinic_id, phone |-> req[p].phone])
    /\ Goto(p, "book_check", [loc[p] EXCEPT !.patient_id = Len(patients) + 1])
    /\ UNCHANGED appointments

\* the double-booking select and the early return on a conflict
BookCheckSlot(p) ==
    /\ pc[p] = "book_check"
    /\ IF ExistingAtSlot(req[p].doctor_id, IsoDate(req[p].date),
                         StrfTime(req[p].time)) # {}
       THEN Returns(p, req[p], Failure("This time slot is already booked"))
       ELSE Goto(p, "book_insert", loc[p])
    /\ UNCHANGED <<patients, appointments>>

BookInsert_NotifiesBeforeWrite(p) ==
    /\ pc[p] = "book_insert"
    /\ Goto(p, "book_notify",
            [loc[p] EXCEPT !.appointment_id = Len(appointments) + 1])
    /\ UNCHANGED <<patients, appointments>>

\* the insert of the appointment row
BookInsert(p) ==
    /\ pc[p] = "book_insert"
    /\ appointments' = Append(appointments,
                              AppointmentRecord(req[p], loc[p].patient_id))
    /\ Goto(p, "book_notify",
            [loc[p] EXCEPT !.appointment_id = Len(appointments) + 1])
    /\ UNCHANGED patients

\* send_appointment_confirmation: the clinic-scoped select, the delivery and,
\* when it succeeded, the update of confirmation_sent; then the return.
\* The notifier catches its own failures, and the update it makes depends on
\* nothing it read, so its select and update are one step.
BookNotify(p) ==
    /\ pc[p] = "book_notify"
    /\ \E delivered \in BOOLEAN :
          /\ appointments' =
                IF delivered /\ AppointmentOfClinic(loc[p].appointment_id,
                                                    req[p].clinic_id) # {}
                THEN [appointments EXCEPT
                          ![loc[p].appointment_id].confirmation_sent = TRUE]
                ELSE appointments
          /\ Returns(p, req[p],
                     NotifiedResult(delivered, "Appointment booked successfully",
                                    loc[p].appointment_id))
    /\ UNCHANGED patients

(***************************************************************************)
(* cancel_appointment                                                      *)
(***************************************************************************)
\* entry, the clinic-scoped select of the appointment and the status check
CancelSelect(p) ==
    /\ pc[p] = "idle"
    /\ \E c \in Clinics, id \in 1..(Len(appointments) + 1), reason \in Reasons :
          LET found == AppointmentOfClinic(id, c)
              r == [NoReq EXCEPT !.op = "cancel", !.clinic_id = c,
                                 !.appointment_id = id, !.reason = reason]
          IN  IF found = {}
              THEN Returns(p, r, Failure("Appointment not found"))
              ELSE IF CannotCancel(appointments[id].status)
              THEN Returns(p, r, Failure("Cannot cancel appointment with status"))
              ELSE Enter(p, "cancel_update", r,
                         [NoLoc EXCEPT !.appointment = appointments[id]])
    /\ UNCHANGED <<patients, appointments>>

\* the update of status, cancellation_reason and cancelled_at, by id alone
CancelUpdate(p) ==
    /\ pc[p] = "cancel_update"
    /\ appointments' = [appointments EXCEPT ![req[p].appointment_id] =
                            CancelUpdateData(@, req[p])]
    /\ Goto(p, "cancel_notify", loc[p])
    /\ UNCHANGED patients

\* send_cancellation_confirmation (delivered or not, it writes nothing) and
\* the return
CancelNotify(p) ==
    /\ pc[p] = "cancel_notify"
    /\ \E delivered \in BOOLEAN :
          Returns(p, req[p],
                  NotifiedResult(delivered, "Appointment cancelled successfully", 0))
    /\ UNCHANGED <<patients, appointments>>

(***************************************************************************)
(* reschedule_appointment                                                  *)
(***************************************************************************)
\* entry, the clinic-scoped select of the appointment and the status check
RescheduleSelect(p) ==
    /\ pc[p] = "idle"
    /\ \E c \in Clinics, id \in 1..(Len(appointments) + 1), dt \in Dates, t \in Times :
          LET found == AppointmentOfClinic(id, c)
              r == [NoReq EXCEPT !.op = "reschedule", !.clinic_id = c,
                                 !.appointment_id = id, !.date = dt, !.time = t]
          IN  IF found = {}
              THEN Returns(p, r, Failure("Appointment not found"))
              ELSE IF CannotReschedule(appointments[id].status)
              THEN Returns(p, r, Failure("Cannot reschedule appointment with status"))
              ELSE Enter(p, "reschedule_check", r,
                         [NoLoc EXCEPT !.appointment = appointments[id]])
    /\ UNCHANGED <<patients, appointments>>

\* the select for a conflict at the new slot, own id excluded
RescheduleCheckSlot(p) ==
    /\ pc[p] = "reschedule_check"
    /\ IF ExistingAtSlotExcept(loc[p].appointment.doctor_id, IsoDate(req[p].date),
                               StrfTime(req[p].time), req[p].appointment_id) # {}
       THEN Returns(p, req[p], Failure("The new time slot is already booked"))
       ELSE Goto(p, "reschedule_update", loc[p])
    /\ UNCHANGED <<patients, appointments>>

\* the update of date, time, rescheduled_at and the reminder flag, by id alone
RescheduleUpdate(p) ==
    /\ pc[p] = "reschedule_update"
    /\ appointments' = [appointments EXCEPT ![req[p].appointment_id] =
                            RescheduleUpdateData(@, req[p])]
    /\ Goto(p, "reschedule_notify", loc[p])
    /\ UNCHANGED patients

\* send_reschedule_confirmation (delivered or not, it writes nothing) and
\* the return
RescheduleNotify(p) ==
    /\ pc[p] = "reschedule_notify"
    /\ \E delivered \in BOOLEAN :
          Returns(p, req[p],
                  NotifiedResult(delivered, "Appointment rescheduled successfully", 0))
    /\ UNCHANGED <<patients, appointments>>

(***************************************************************************)
(* check_doctor_availability                                               *)
(***************************************************************************)
\* the dates availability is asked for: day 1 is a monday, day 2 a tuesday
AvailDates == {1, 2}

CheckAvailability_HoldsSlot(p) ==
    /\ pc[p] = "idle"
    /\ \E d \in Doctors, dt \in AvailDates, c \in Clinics :
          LET res == AvailabilityResult(d, dt, c) IN
          /\ Returns(p, [NoReq EXCEPT !.op = "availability", !.clinic_id = c,
                                      !.doctor_id = d, !.date = dt], res)
          /\ appointments' =
                IF res.available
                THEN Append(appointments,
                            [NoRow EXCEPT !.clinic_id = c, !.doctor_id = d,
                                          !.date = IsoDate(dt),
                                          !.time = <<9, 0, 0>>,
                                          !.duration_minutes = DefaultDuration,
                                          !.status = "scheduled"])
                ELSE appointments
    /\ UNCHANGED patients

\* the whole handler: it only reads (doctors, appointments, blocked_times)
\* and returns the dict computed from what it read
CheckAvailability(p) ==
    /\ pc[p] = "idle"
    /\ \E d \in Doctors, dt \in AvailDates, c \in Clinics :
          Returns(p, [NoReq EXCEPT !.op = "availability", !.clinic_id = c,
                                   !.doctor_id = d, !.date = dt],
                  AvailabilityResult(d, dt, c))
    /\ UNCHANGED <<patients, appointments>>

Next ==
    \E p \in Procs :
        \/ BookLookupPatient(p)
        \/ BookInsertPatient(p)
        \/ BookCheckSlot(p)
        \/ BookInsert(p)
        \/ BookNotify(p)
        \/ CancelSelect(p)
        \/ CancelUpdate(p)
        \/ CancelNotify(p)
        \/ RescheduleSelect(p)
        \/ RescheduleCheckSlot(p)
        \/ RescheduleUpdate(p)
        \/ RescheduleNotify(p)

Spec == Init /\ [][Next]_vars

(***************************************************************************)
(* SpecAvail: check_doctor_availability applied to stores drawn from a     *)
(* bounded set of doctor schedules, appointments and blocked times.        *)
(***************************************************************************)
\* "HH:MM" text of a time of day
HourMinuteText(hour, minute) ==
    StrfHourMinute([hour |-> hour, minute |-> minute])

\* entries of working_hours for monday: well formed, disabled, without the
\* enabled key, without start and end, with start or end that do not parse,
\* and with a start written without zero padding
DaySchedules ==
    {[enabled |-> TRUE, start |-> HourMinuteText(9, 0), end |-> HourMinuteText(17, 0)],
     [enabled |-> TRUE, start |-> HourMinuteText(10, 0), end |-> HourMinuteText(12, 0)],
     [enabled |-> FALSE, start |-> HourMinuteText(9, 0), end |-> HourMinuteText(17, 0)],
     [start |-> HourMinuteText(9, 0), end |-> HourMinuteText(17, 0)],
     [enabled |-> TRUE],
     [enabled |-> TRUE, start |-> <<"9", "a", "m">>, end |-> HourMinuteText(17, 0)],
     [enabled |-> TRUE, start |-> HourMinuteText(9, 0), end |-> <<"2", "5", ":", "0", "0">>],
     [enabled |-> TRUE, start |-> <<"0", "9", ":", "0", "0", ":", "0", "0">>,
      end |-> HourMinuteText(17, 0)],
     [enabled |-> TRUE, start |-> <<"9", ":", "3", "0">>, end |-> HourMinuteText(17, 0)]}

\* working_hours maps: monday present, or no day at all
WorkingHours == {[monday |-> ds] : ds \in DaySchedules} \cup {<< >>}

\* slot_duration and buffer_time of the row; the empty record leaves both out
SlotSettings ==
    {[slot_duration |-> 30, buffer_time |-> 0],
     [slot_duration |-> 30, buffer_time |-> 5],
     [slot_duration |-> 45, buffer_time |-> 10],
     << >>}

BreakTimes ==
    {<< >>,
     <<[start |-> HourMinuteText(12, 0), end |-> HourMinuteText(13, 0)]>>,
     <<[start |-> <<"n", "o", "o", "n">>, end |-> HourMinuteText(13, 0)]>>}

\* doctor dA of clinic cA with one of the schedules
DoctorRows ==
    {[id |-> "dA", clinic_id |-> DoctorClinic["dA"], is_active |-> TRUE,
      working_hours |-> wh, break_times |-> bt] @@ ss :
        wh \in WorkingHours, ss \in SlotSettings, bt \in BreakTimes}

\* an appointments row of clinic cA on day 1
AppointmentAt(doctor_id, hour, minute, duration_minutes, status) ==
    [NoRow EXCEPT !.clinic_id = "cA", !.doctor_id = doctor_id, !.patient_id = 1,
                  !.date = 1, !.time = <<hour, minute, 0>>,
                  !.duration_minutes = duration_minutes, !.status = status]

AvailAppointments ==
    {<< >>,
     <<AppointmentAt("dA", 10, 0, 30, "scheduled")>>,
     <<AppointmentAt("dA", 10, 0, 30, "cancelled")>>,
     <<AppointmentAt("dA", 10, 15, 30, "confirmed")>>,
     <<AppointmentAt("dA", 11, 0, 60, "confirmed"),
       AppointmentAt("dA", 16, 30, 30, "scheduled")>>,
     <<AppointmentAt("dB", 10, 0, 30, "scheduled")>>}

TimeOfDay(hour, minute) ==
    [hour |-> hour, minute |-> minute, second |-> 0, microsecond |-> 0]

\* blocked_times rows: inside day 1, for another doctor, for another clinic,
\* starting the day before, ending the day after, and the whole of day 1
AvailBlockedTimes ==
    {<< >>,
     <<[clinic_id |-> "cA", doctor_id |-> "null",
        start_datetime |-> <<1, TimeOfDay(14, 0)>>,
        end_datetime |-> <<1, TimeOfDay(15, 0)>>]>>,
     <<[clinic_id |-> "cA", doctor_id |-> "dB",
        start_datetime |-> <<1, TimeOfDay(14, 0)>>,
        end_datetime |-> <<1, TimeOfDay(15, 0)>>]>>,
     <<[clinic_id |-> "cB", doctor_id |-> "null",
        start_datetime |-> <<1, TimeOfDay(14, 0)>>,
        end_datetime |-> <<1, TimeOfDay(15, 0)>>]>>,
     <<[clinic_id |-> "cA", doctor_id |-> "dA",
        start_datetime |-> <<0, TimeOfDay(22, 0)>>,
        end_datetime |-> <<1, TimeOfDay(10, 0)>>]>>,
     <<[clinic_id |-> "cA", doctor_id |-> "null",
        start_datetime |-> <<1, TimeOfDay(16, 0)>>,
        end_datetime |-> <<2, TimeOfDay(8, 0)>>]>>,
     <<[clinic_id |-> "cA", doctor_id |-> "dA",
        start_datetime |-> <<1, TimeOfDay(0, 0)>>,
        end_datetime |-> <<2, TimeOfDay(0, 0)>>]>>}

InitAvail ==
    /\ Quiet
    /\ \E row \in DoctorRows :
          doctors = [d \in Doctors |-> IF d = "dA" THEN row ELSE StandardDoctor(d)]
    /\ appointments \in AvailAppointments
    /\ blocked_times \in AvailBlockedTimes
    /\ patients = <<[clinic_id |-> "cA", phone |-> "ph1"]>>
    /\ HandlersIdle

\* one caller asks once
NextAvail == \E p \in {CHOOSE q \in Procs : \A r \in Procs : q <= r} :
                CheckAvailability(p)

SpecAvail == InitAvail /\ [][NextAvail]_vars

(***************************************************************************)
(* Calls served one after another: a conversation of five calls against a  *)
(* store that starts without patients and appointments, each call          *)
(* returning before the next one is received.                              *)
(***************************************************************************)
SeqCalls == 1..5

InitSeq ==
    /\ Quiet
    /\ appointments = << >>
    /\ patients = << >>
    /\ doctors = StandardDoctors
    /\ blocked_times = << >>
    /\ pc = [p \in SeqCalls |-> "idle"]
    /\ req = [p \in SeqCalls |-> NoReq]
    /\ loc = [p \in SeqCalls |-> NoLoc]
    /\ result = [p \in SeqCalls |-> NoResult]

\* every earlier call has returned
InTurn(p) == \A q \in SeqCalls : q < p => pc[q] = "done"

\* the conversation is about clinic cA, its doctor dA and date 1
SeqRequest(r) ==
    /\ r.clinic_id = "cA"
    /\ r.doctor_id \in {"dA", "none"}
    /\ r.date \in {0, 1}

NextSeq ==
    \E p \in SeqCalls :
        /\ InTurn(p)
        /\ \/ CheckAvailability(p)
           \/ BookLookupPatient(p)
           \/ BookInsertPatient(p)
           \/ BookCheckSlot(p)
           \/ BookInsert(p)
           \/ BookNotify(p)
           \/ CancelSelect(p)
           \/ CancelUpdate(p)
           \/ CancelNotify(p)
        /\ SeqRequest(req'[p])

SpecSeq == InitSeq /\ [][NextSeq]_vars

(***************************************************************************)
(* get_patient_appointments                                                *)
(***************************************************************************)
\* datetime.now().date(): the day the calls are served
Today == 1

\* (date, time) of row a is not after that of row b; the ISO texts of the
\* columns order as the day numbers and the (hour, minute, second) triples
DateTimeLeq(a, b) ==
    \/ a.date < b.date
    \/ /\ a.date = b.date
       /\ \/ a.time[1] < b.time[1]
          \/ a.time[1] = b.time[1] /\ a.time[2] < b.time[2]
          \/ a.time[1] = b.time[1] /\ a.time[2] = b.time[2] /\ a.time[3] <= b.time[3]

UpcomingAppointments_AfterToday(patient_id, clinic_id, today) ==
    {i \in 1..Len(appointments) :
        /\ appointments[i].patient_id = patient_id
        /\ appointments[i].clinic_id = clinic_id
        /\ appointments[i].date > today
        /\ appointments[i].status \in {"scheduled", "confirmed"}}

\* appointments .eq(patient_id) .eq(clinic_id) .gte(date, today)
\* .in_(status, [scheduled, confirmed]): ids of the matching rows
UpcomingAppointments(patient_id, clinic_id, today) ==
    {i \in 1..Len(appointments) :
        /\ appointments[i].patient_id = patient_id
        /\ appointments[i].clinic_id = clinic_id
        /\ appointments[i].date >= today
        /\ appointments[i].status \in {"scheduled", "confirmed"}}

\* .order("date").order("time"): the answers the store may give for the rows
\* ids, rows of equal date and time in either order
Ordered(ids) ==
    {s \in [1..Cardinality(ids) -> ids] :
        /\ \A i, j \in 1..Cardinality(ids) : i < j => s[i] # s[j]
        /\ \A i, j \in 1..Cardinality(ids) :
              i < j => DateTimeLeq(appointments[s[i]], appointments[s[j]])}

\* a row as the select returns it, with its id
Selected(i) == [id |-> i] @@ appointments[i]

\* entry and the select of the patient by clinic and phone
ListLookupPatient(p) ==
    /\ pc[p] = "idle"
    /\ \E c \in Clinics, ph \in Phones :
          LET found == PatientsByPhone(c, ph)
              r == [NoReq EXCEPT !.op = "list", !.clinic_id = c, !.phone = ph]
          IN  IF found = {}
              THEN Returns(p, r, [success |-> FALSE,
                                  message |-> "Patient not found",
                                  appointments |-> << >>])
              ELSE Enter(p, "list_select", r,
                         [NoLoc EXCEPT !.patient_id = FirstId(found)])
    /\ UNCHANGED <<patients, appointments>>

\* the select of the upcoming appointments and the return
ListSelect(p) ==
    /\ pc[p] = "list_select"
    /\ \E s \in Ordered(UpcomingAppointments(loc[p].patient_id,
                                           req[p].clinic_id, IsoDate(Today))) :
          Returns(p, req[p], [success |-> TRUE,
                              appointments |-> [i \in 1..Len(s) |-> Selected(s[i])],
                              count |-> Len(s)])
    /\ UNCHANGED <<patients, appointments>>

(***************************************************************************)
(* get_patient_appointments over stores drawn from a pool of rows: one     *)
(* caller, the store does not change.                                      *)
(***************************************************************************)
ListRow(patient_id, clinic_id, date, hour, minute, status) ==
    [NoRow EXCEPT !.clinic_id = clinic_id,
                  !.doctor_id = IF clinic_id = "cA" THEN "dA" ELSE "dB",
                  !.patient_id = patient_id, !.date = date,
                  !.time = <<hour, minute, 0>>,
                  !.duration_minutes = DefaultDuration, !.status = status]

\* rows of patient 1 in clinic cA today, later and earlier, active and not;
\* a row of clinic cB with patient id 1; a row of patient 2
ListRows ==
    {ListRow(1, "cA", 1, 10, 0, "scheduled"),
     ListRow(1, "cA", 1, 10, 15, "confirmed"),
     ListRow(1, "cA", 2, 10, 0, "confirmed"),
     ListRow(1, "cA", 0, 10, 0, "scheduled"),
     ListRow(1, "cA", 2, 10, 0, "cancelled"),
     ListRow(1, "cA", 1, 10, 15, "completed"),
     ListRow(1, "cA", 2, 10, 15, "no_show"),
     ListRow(1, "cB", 1, 10, 0, "scheduled"),
     ListRow(2, "cA", 1, 10, 0, "scheduled"),
     ListRow(2, "cB", 2, 10, 0, "confirmed")}

ListAppointments ==
    {<< >>} \cup {<<a>> : a \in ListRows}
    \cup {<<a, b>> : a, b \in ListRows}
    \cup {<<a, b, c>> : a, b, c \in ListRows}

\* patients tables: empty, one patient, the same phone in both clinics, and
\* two rows for one clinic and phone
ListPatients ==
    {<< >>,
     <<[clinic_id |-> "cA", phone |-> "ph1"]>>,
     <<[clinic_id |-> "cA", phone |-> "ph1"], [clinic_id |-> "cB", phone |-> "ph1"]>>,
     <<[clinic_id |-> "cB", phone |-> "ph1"], [clinic_id |-> "cA", phone |-> "ph1"]>>,
     <<[clinic_id |-> "cA", phone |-> "ph1"], [clinic_id |-> "cA", phone |-> "ph1"]>>}

InitList ==
    /\ Quiet
    /\ patients \in ListPatients
    /\ appointments \in ListAppointments
    /\ doctors = StandardDoctors
    /\ blocked_times = << >>
    /\ HandlersIdle

NextList == \E p \in {CHOOSE q \in Procs : \A r \in Procs : q <= r} :
                \/ ListLookupPatient(p)
                \/ ListSelect(p)

SpecList == InitList /\ [][NextList]_vars

(***************************************************************************)
(* Failing store calls.  Every handler body is one try block whose         *)
(* "except Exception" clause logs and returns a dict, so a store call      *)
(* that raises ends the handler at that call, without the write the call   *)
(* would have made.                                                        *)
(***************************************************************************)
Operations == {"book", "cancel", "reschedule", "availability", "list"}

\* the dict the except clause of each handler returns
ExceptResult(op) ==
    CASE op = "book" -> Failure("Error booking appointment")
      [] op = "cancel" -> Failure("Error cancelling appointment")
      [] op = "reschedule" -> Failure("Error rescheduling appointment")
      [] op = "availability" -> Unavailable("Error checking availability")
      [] op = "list" -> [success |-> FALSE,
                         message |-> "Error fetching appointments",
                         appointments |-> << >>]

Caught_Reraises(p, r) ==
    /\ pc' = [pc EXCEPT ![p] = "raised"]
    /\ req' = [req EXCEPT ![p] = r]
    /\ UNCHANGED <<result, loc, doctors, blocked_times, call_logs, outbox, settings>>

\* except Exception as e: log, return the dict
Caught(p, r) == Returns(p, r, ExceptResult(r.op))

\* the labels at which a handler is about to make a store call
StoreCallLabels ==
    {"book_patient_insert", "book_check", "book_insert",
     "cancel_update", "reschedule_check", "reschedule_update", "list_select"}

\* the first store call of a handler raises (for check_doctor_availability,
\* which only reads: any of its three selects)
FailAtEntry(p) ==
    /\ pc[p] = "idle"
    /\ \E op \in Operations, c \in Clinics :
          Caught(p, [NoReq EXCEPT !.op = op, !.clinic_id = c])
    /\ UNCHANGED <<patients, appointments>>

\* a later store call of a handler raises
FailAtStep(p) ==
    /\ pc[p] \in StoreCallLabels
    /\ Caught(p, req[p])
    /\ UNCHANGED <<patients, appointments>>

\* two calls served one after another, any store call of which may raise
FailCalls == 1..2

InitFail ==
    /\ Quiet
    /\ appointments \in InitialAppointments
    /\ patients = IF appointments = << >> THEN << >>
                  ELSE <<[clinic_id |-> "cA", phone |-> "ph1"]>>
    /\ doctors = StandardDoctors
    /\ blocked_times = << >>
    /\ pc = [p \in FailCalls |-> "idle"]
    /\ req = [p \in FailCalls |-> NoReq]
    /\ loc = [p \in FailCalls |-> NoLoc]
    /\ result = [p \in FailCalls |-> NoResult]

NextFail ==
    \E p \in FailCalls :
        /\ InTurn(p)
        /\ \/ BookLookupPatient(p)
           \/ BookInsertPatient(p)
           \/ BookCheckSlot(p)
           \/ BookInsert(p)
           \/ BookNotify(p)
           \/ CancelSelect(p)
           \/ CancelUpdate(p)
           \/ CancelNotify(p)
           \/ RescheduleSelect(p)
           \/ RescheduleCheckSlot(p)
           \/ RescheduleUpdate(p)
           \/ RescheduleNotify(p)
           \/ CheckAvailability(p)
           \/ ListLookupPatient(p)
           \/ ListSelect(p)
           \/ FailAtEntry(p)
           \/ FailAtStep(p)

SpecFail == InitFail /\ [][NextFail]_vars

(***************************************************************************)
(* check_doctor_availability called twice, the second call after the first *)
(* returned, over the drawn stores.                                        *)
(***************************************************************************)
RetryCalls == 1..2

InitRetry ==
    /\ Quiet
    /\ \E row \in DoctorRows :
          doctors = [d \in Doctors |-> IF d = "dA" THEN row ELSE StandardDoctor(d)]
    /\ appointments \in AvailAppointments
    /\ blocked_times \in AvailBlockedTimes
    /\ patients = <<[clinic_id |-> "cA", phone |-> "ph1"]>>
    /\ pc = [p \in RetryCalls |-> "idle"]
    /\ req = [p \in RetryCalls |-> NoReq]
    /\ loc = [p \in RetryCalls |-> NoLoc]
    /\ result = [p \in RetryCalls |-> NoResult]

NextRetry == \E p \in RetryCalls : InTurn(p) /\ CheckAvailability(p)

SpecRetry == InitRetry /\ [][NextRetry]_vars

(***************************************************************************)
(* The Vapi webhook: POST /webhook with the x-vapi-secret header.          *)
(***************************************************************************)
\* Optional[str] values: None, or a string
None == "None"

\* x-vapi-secret headers a request may carry: none, a wrong one, the right one
HeaderSecrets == {None, "guess", "secret"}

MessageTypes == {"function-call", "end-of-call-report", "status-update"}

VerifyWebhookSecret_NoneMatchesNone(secret) == secret = settings.vapi_webhook_secret

\* verify_webhook_secret
VerifyWebhookSecret(secret) ==
    IF settings.vapi_webhook_secret = None
    THEN FALSE
    ELSE secret = settings.vapi_webhook_secret

\* HTTPException(status_code=401, detail="Invalid webhook secret")
Unauthorized == [status_code |-> 401, detail |-> "Invalid webhook secret"]

\* a request arrives
WebhookReceive(p) ==
    /\ pc[p] = "waiting"
    /\ \E secret \in HeaderSecrets, type \in MessageTypes :
          /\ pc' = [pc EXCEPT ![p] = "received"]
          /\ req' = [req EXCEPT ![p] = [x_vapi_secret |-> secret, type |-> type]]
    /\ UNCHANGED <<patients, appointments, doctors, blocked_times, loc, result,
                   call_logs, outbox, settings>>

\* handle_vapi_webhook up to its first store call: the secret check, then the
\* dispatch on the message type.  A function call enters one of the handlers
\* (which starts idle), a call report goes on to insert its log row, any
\* other message is answered at once.
WebhookVerify(p) ==
    /\ pc[p] = "received"
    /\ IF ~VerifyWebhookSecret(req[p].x_vapi_secret)
       THEN Returns(p, req[p], Unauthorized)
       ELSE IF req[p].type = "function-call"
       THEN Goto(p, "idle", NoLoc)
       ELSE IF req[p].type = "end-of-call-report"
       THEN Goto(p, "call_log_insert", NoLoc)
       ELSE Returns(p, req[p], [status |-> "ok", message |-> "Unknown message type"])
    /\ UNCHANGED <<patients, appointments>>

\* handle_call_ended: create_call_log's insert, and the answer
CallEndedInsert(p) ==
    /\ pc[p] = "call_log_insert"
    /\ pc' = [pc EXCEPT ![p] = "done"]
    /\ result' = [result EXCEPT ![p] = [status |-> "ok", message |-> "Call log created"]]
    /\ call_logs' = Append(call_logs, [channel |-> "voice", direction |-> "inbound"])
    /\ UNCHANGED <<patients, appointments, doctors, blocked_times, req, loc,
                   outbox, settings>>

\* two requests, the second received after the first was answered
HookCalls == 1..2

InitWebhook ==
    /\ appointments \in InitialAppointments
    /\ patients = IF appointments = << >> THEN << >>
                  ELSE <<[clinic_id |-> "cA", phone |-> "ph1"]>>
    /\ doctors = StandardDoctors
    /\ blocked_times = << >>
    /\ call_logs = << >>
    /\ outbox = << >>
    /\ settings \in {[vapi_webhook_secret |-> "secret"], [vapi_webhook_secret |-> None]}
    /\ pc = [p \in HookCalls |-> "waiting"]
    /\ req = [p \in HookCalls |-> NoReq]
    /\ loc = [p \in HookCalls |-> NoLoc]
    /\ result = [p \in HookCalls |-> NoResult]

NextWebhook ==
    \E p \in HookCalls :
        /\ InTurn(p)
        /\ \/ WebhookReceive(p)
           \/ WebhookVerify(p)
           \/ CallEndedInsert(p)
           \/ CheckAvailability(p)
           \/ BookLookupPatient(p)
           \/ BookInsertPatient(p)
           \/ BookCheckSlot(p)
           \/ BookInsert(p)
           \/ BookNotify(p)
           \/ CancelSelect(p)
           \/ CancelUpdate(p)
           \/ CancelNotify(p)
           \/ RescheduleSelect(p)
           \/ RescheduleCheckSlot(p)
           \/ RescheduleUpdate(p)
           \/ RescheduleNotify(p)

SpecWebhook == InitWebhook /\ [][NextWebhook]_vars

(***************************************************************************)
(* verify_retell_signature.  HMAC-SHA256 is a digest determined by key and *)
(* message, different for different keys or messages.  A header value is   *)
(* one of: nothing, the base64 text of a digest, the text                  *)
(* "t=<timestamp>,v=<hex digest>", or some other text; texts of different  *)
(* shape are different strings.                                            *)
(***************************************************************************)
NoTimestamp == 0 - 1

\* the bytes signed: the body alone, or "<timestamp>.<body>"
Payload(timestamp, body) == [timestamp |-> timestamp, body |-> body]

\* hmac.new(key, msg, sha256).digest()
HmacSha256(key, msg) == [key |-> key, msg |-> msg]

NoDigest == HmacSha256("", Payload(NoTimestamp, ""))

\* base64.b64encode(digest).decode()
Base64Text(digest) == [shape |-> "base64", timestamp |-> NoTimestamp, digest |-> digest]

\* f"t={timestamp},v={hexdigest}"
TimestampedText(timestamp, digest) ==
    [shape |-> "t=,v=", timestamp |-> timestamp, digest |-> digest]

EmptyText == [shape |-> "", timestamp |-> NoTimestamp, digest |-> NoDigest]

OtherText == [shape |-> "other", timestamp |-> NoTimestamp, digest |-> NoDigest]

VerifyRetellSignature_TimestampedAnyAge(body, signature, api_key) ==
    IF signature = EmptyText \/ api_key = ""
    THEN FALSE
    ELSE /\ signature.shape = "t=,v="
         /\ signature.digest = HmacSha256(api_key, Payload(signature.timestamp, body))

\* verify_retell_signature: the header must be the base64 text of the digest
\* of the body under the key; nothing else is looked at
VerifyRetellSignature(body, signature, api_key) ==
    IF signature = EmptyText \/ api_key = ""
    THEN FALSE
    ELSE LET expected == HmacSha256(api_key, Payload(NoTimestamp, body))
             expected_b64 == Base64Text(expected)
         IN  expected_b64 = signature

SigBodies == {"body1", "body2"}

SigKeys == {"", "key1", "key2"}

\* seconds: signing times and the times at which a request is presented
SigTimes == {0, 300, 301, 1000}

SigHeaders ==
    {EmptyText, OtherText}
    \cup {Base64Text(HmacSha256(k, Payload(NoTimestamp, b))) :
              k \in SigKeys \ {""}, b \in SigBodies}
    \cup {TimestampedText(t, HmacSha256(k, Payload(t, b))) :
              t \in SigTimes, k \in SigKeys \ {""}, b \in SigBodies}

\* the inbound webhook reads the header and verifies it against the body at
\* time now
VerifySignature(p) ==
    /\ pc[p] = "idle"
    /\ \E body \in SigBodies, signature \in SigHeaders, api_key \in SigKeys,
          now \in SigTimes :
          Returns(p, [op |-> "verify", body |-> body, signature |-> signature,
                      api_key |-> api_key, now |-> now],
                  [valid |-> VerifyRetellSignature(body, signature, api_key)])
    /\ UNCHANGED <<patients, appointments>>

NextSig == \E p \in {CHOOSE q \in Procs : \A r \in Procs : q <= r} :
               VerifySignature(p)

SpecSig == Init /\ [][NextSig]_vars

(***************************************************************************)
(* Bookings for doctors of different slot durations: two Book calls, one   *)
(* after the other, against an empty store.                                *)
(***************************************************************************)
SlotDurations == {15, 30, 45}

DurationCalls == 1..2

InitDuration ==
    /\ appointments = << >>
    /\ patients = << >>
    /\ \E sd \in [Doctors -> SlotDurations] :
          doctors = [d \in Doctors |->
                        [StandardDoctor(d) EXCEPT !.slot_duration = sd[d]]]
    /\ blocked_times = << >>
    /\ Quiet
    /\ pc = [p \in DurationCalls |-> "idle"]
    /\ req = [p \in DurationCalls |-> NoReq]
    /\ loc = [p \in DurationCalls |-> NoLoc]
    /\ result = [p \in DurationCalls |-> NoResult]

NextDuration ==
    \E p \in DurationCalls :
        /\ InTurn(p)
        /\ \/ BookLookupPatient(p)
           \/ BookInsertPatient(p)
           \/ BookCheckSlot(p)
           \/ BookInsert(p)
           \/ BookNotify(p)

SpecDuration == InitDuration /\ [][NextDuration]_vars

(***************************************************************************)
(* The reminder sweep (process_reminders) and the manual send              *)
(* (send_reminder_for_appointment), both through send_appointment_reminder.*)
(* The provider call is awaited between the select of the appointment and  *)
(* the update of reminder_sent, so other requests run in between.          *)
(***************************************************************************)
\* now + 24 hours and now + 48 hours, as dates
ReminderStart == Today + 1
ReminderEnd == Today + 2

\* appointments .gte(date) .lte(date) .eq(reminder_sent, False)
\* .in_(status, active): the ids of the rows, in store order
AppointmentsNeedingReminders ==
    LET due(i) == /\ appointments[i].date >= IsoDate(ReminderStart)
                  /\ appointments[i].date <= IsoDate(ReminderEnd)
                  /\ appointments[i].reminder_sent = FALSE
                  /\ appointments[i].status \in {"scheduled", "confirmed"}
        ids[i \in 0..Len(appointments)] ==
            IF i = 0 THEN << >>
            ELSE IF due(i) THEN Append(ids[i - 1], i) ELSE ids[i - 1]
    IN  ids[Len(appointments)]

\* the message the provider delivered
ReminderMessage(appointment_id) ==
    [kind |-> "reminder", appointment_id |-> appointment_id]

NoCounts == [total |-> 0, success |-> 0, failed |-> 0]

\* the locals of a run: the appointments still to remind and the counts
ReminderLoc(pending, results) ==
    [patient_id |-> 0, appointment_id |-> 0, appointment |-> NoRow,
     pending |-> pending, results |-> results]

AlreadySent == [success |-> TRUE, message |-> "Reminder already sent"]
NotFound == [success |-> FALSE, message |-> "Appointment not found"]
Delivered == [success |-> TRUE, message |-> "sent"]
Undelivered == [success |-> FALSE, message |-> "not sent"]

\* send_appointment_reminder returned r to run p: the manual send returns it,
\* the sweep counts it and goes on with the next appointment
ReminderReturned(p, r) ==
    /\ UNCHANGED <<req, patients, doctors, blocked_times, call_logs, settings>>
    /\ IF req[p].op = "remind"
       THEN /\ pc' = [pc EXCEPT ![p] = "done"]
            /\ loc' = [loc EXCEPT ![p] = NoLoc]
            /\ result' = [result EXCEPT ![p] = r]
       ELSE LET rest == Tail(loc[p].pending)
                counts == IF r.success
                          THEN [loc[p].results EXCEPT !.success = @ + 1]
                          ELSE [loc[p].results EXCEPT !.failed = @ + 1]
            IN  IF rest = << >>
                THEN /\ pc' = [pc EXCEPT ![p] = "done"]
                     /\ loc' = [loc EXCEPT ![p] = NoLoc]
                     /\ result' = [result EXCEPT ![p] = counts]
                ELSE /\ pc' = [pc EXCEPT ![p] = "reminder_select"]
                     /\ loc' = [loc EXCEPT ![p] = ReminderLoc(rest, counts)]
                     /\ UNCHANGED result

\* process_reminders: the query of the appointments due
ProcessReminders(p) ==
    /\ pc[p] = "idle"
    /\ LET due == AppointmentsNeedingReminders
           counts == [NoCounts EXCEPT !.total = Len(due)]
       IN  IF due = << >>
           THEN /\ pc' = [pc EXCEPT ![p] = "done"]
                /\ result' = [result EXCEPT ![p] = counts]
                /\ UNCHANGED loc
           ELSE /\ pc' = [pc EXCEPT ![p] = "reminder_select"]
                /\ loc' = [loc EXCEPT ![p] = ReminderLoc(due, counts)]
                /\ UNCHANGED result
    /\ req' = [req EXCEPT ![p] = [NoReq EXCEPT !.op = "sweep"]]
    /\ UNCHANGED <<patients, appointments, doctors, blocked_times, call_logs,
                   outbox, settings>>

\* send_reminder_for_appointment is called with an appointment id
SendReminderForAppointment(p) ==
    /\ pc[p] = "idle"
    /\ \E id \in 1..(Len(appointments) + 1) :
          /\ pc' = [pc EXCEPT ![p] = "reminder_select"]
          /\ req' = [req EXCEPT ![p] = [NoReq EXCEPT !.op = "remind",
                                                     !.appointment_id = id]]
          /\ loc' = [loc EXCEPT ![p] = ReminderLoc(<<id>>, NoCounts)]
    /\ UNCHANGED <<patients, appointments, doctors, blocked_times, call_logs,
                   outbox, settings, result>>

\* send_appointment_reminder: the select of the appointment and the test of
\* its reminder_sent
ReminderSelect(p) ==
    /\ pc[p] = "reminder_select"
    /\ UNCHANGED <<appointments, outbox>>
    /\ LET id == Head(loc[p].pending) IN
       IF id \notin 1..Len(appointments)
       THEN ReminderReturned(p, NotFound)
       ELSE IF appointments[id].reminder_sent
       THEN ReminderReturned(p, AlreadySent)
       ELSE /\ pc' = [pc EXCEPT ![p] = "reminder_send"]
            /\ loc' = [loc EXCEPT ![p].appointment_id = id,
                                  ![p].appointment = appointments[id]]
            /\ UNCHANGED <<req, result, patients, doctors, blocked_times,
                           call_logs, settings>>

\* the awaited provider call: the message is delivered or it is not
ReminderSend(p) ==
    /\ pc[p] = "reminder_send"
    /\ UNCHANGED appointments
    /\ \/ /\ outbox' = Append(outbox, ReminderMessage(loc[p].appointment_id))
          /\ pc' = [pc EXCEPT ![p] = "reminder_update"]
          /\ UNCHANGED <<req, loc, result, patients, doctors, blocked_times,
                         call_logs, settings>>
       \/ /\ UNCHANGED outbox
          /\ ReminderReturned(p, Undelivered)

\* the update of reminder_sent after a delivery, then the return
ReminderUpdate(p) ==
    /\ pc[p] = "reminder_update"
    /\ appointments' = [appointments EXCEPT
                           ![loc[p].appointment_id].reminder_sent = TRUE]
    /\ UNCHANGED outbox
    /\ ReminderReturned(p, Delivered)

RemindCalls == 1..2

\* the rows the store holds when the runs start: due tomorrow or later than
\* the window, active or cancelled, reminded or not
RemindRows ==
    {[NoRow EXCEPT !.clinic_id = "cA", !.doctor_id = "dA", !.patient_id = 1,
                   !.date = IsoDate(d), !.time = <<10, 0, 0>>,
                   !.duration_minutes = DefaultDuration, !.status = st,
                   !.reminder_sent = rs] :
        d \in {ReminderStart, ReminderEnd + 1},
        st \in {"scheduled", "cancelled"}, rs \in BOOLEAN}

\* the reminders delivered before: one for each row whose reminder_sent is set
RemindedBefore(rows) ==
    LET sent[i \in 0..Len(rows)] ==
            IF i = 0 THEN << >>
            ELSE IF rows[i].reminder_sent
                 THEN Append(sent[i - 1], ReminderMessage(i))
                 ELSE sent[i - 1]
    IN  sent[Len(rows)]

InitRemind ==
    /\ appointments \in {<<a>> : a \in RemindRows}
                        \cup {<<a, b>> : a, b \in RemindRows}
    /\ patients = <<[clinic_id |-> "cA", phone |-> "ph1"]>>
    /\ doctors = StandardDoctors
    /\ blocked_times = << >>
    /\ call_logs = << >>
    /\ outbox = RemindedBefore(appointments)
    /\ settings = [vapi_webhook_secret |-> "secret"]
    /\ pc = [p \in RemindCalls |-> "idle"]
    /\ req = [p \in RemindCalls |-> NoReq]
    /\ loc = [p \in RemindCalls |-> NoLoc]
    /\ result = [p \in RemindCalls |-> NoResult]

NextRemind ==
    \E p \in RemindCalls :
        \/ ProcessReminders(p)
        \/ SendReminderForAppointment(p)
        \/ ReminderSelect(p)
        \/ ReminderSend(p)
        \/ ReminderUpdate(p)

SpecRemind == InitRemind /\ [][NextRemind]_vars

(***************************************************************************)
(* Vocabulary of the properties.                                           *)
(***************************************************************************)
ActiveStatuses == {"scheduled", "confirmed"}
TerminalStatuses == {"cancelled", "completed", "no_show"}

\* the handler that takes the step
Steps(p) == pc'[p] # pc[p]

IsActive(row) == row.status \in ActiveStatuses

\* the time column value a datetime.time denotes
ColumnTime(t) == <<t.hour, t.minute, t.second>>

\* active appointments of the doctor at the slot named by date and time
ActiveAt(doctor_id, dt, t) ==
    {i \in 1..Len(appointments) :
        /\ IsActive(appointments[i])
        /\ appointments[i].doctor_id = doctor_id
        /\ appointments[i].date = dt
        /\ appointments[i].time = ColumnTime(t)}

SameSlot(r1, r2) ==
    r1.doctor_id = r2.doctor_id /\ r1.date = r2.date /\ r1.time = r2.time

\* the appointment row exists and belongs to the clinic
Owns(clinic_id, id) ==
    id \in 1..Len(appointments) /\ appointments[id].clinic_id = clinic_id

(***************************************************************************)
(* C1: in every reachable state, for each (doctor, date, time) at most one *)
(* appointment has status scheduled or confirmed.                          *)
(***************************************************************************)
C1_AtMostOneActivePerSlot ==
    \A i, j \in 1..Len(appointments) :
        (/\ i # j
         /\ IsActive(appointments[i])
         /\ IsActive(appointments[j]))
        => ~SameSlot(appointments[i], appointments[j])

(***************************************************************************)
(* C2: of two concurrent Book calls for the identical (doctor, date, time) *)
(* exactly one returns success and the other the slot conflict.  A Book    *)
(* that has passed its conflict check returns success, so two calls in     *)
(* flight together for one slot are never both past the check.             *)
(***************************************************************************)
C2_ExactlyOneBookSucceeds ==
    \A p, q \in Procs :
        (/\ p # q
         /\ pc[p] \in {"book_insert", "book_notify"}
         /\ pc[q] \in {"book_insert", "book_notify"})
        => ~SameSlot(req[p], req[q])

(***************************************************************************)
(* C3: a Book whose conflict check runs while an active appointment holds  *)
(* its (doctor, date, time) returns success=false with the "already        *)
(* booked" message at once and inserts no appointment row.                 *)
(***************************************************************************)
C3_ConflictRejected ==
    [][\A p \in Procs :
          (/\ pc[p] = "book_check"
           /\ Steps(p)
           /\ ActiveAt(req[p].doctor_id, req[p].date, req[p].time) # {})
          => /\ pc'[p] = "done"
             /\ result'[p] = [success |-> FALSE,
                              message |-> "This time slot is already booked",
                              appointment_id |-> 0]
             /\ appointments' = appointments]_vars

\* a Book has been rejected while an active appointment holds its slot
C3_Witness ==
    \E p \in Procs :
        /\ pc[p] = "done"
        /\ req[p].op = "book"
        /\ result[p].message = "This time slot is already booked"
        /\ ActiveAt(req[p].doctor_id, req[p].date, req[p].time) # {}

(***************************************************************************)
(* C4: in every reachable state there is at most one patient row per       *)
(* (clinic, phone).                                                        *)
(***************************************************************************)
C4_OnePatientPerClinicPhone ==
    \A i, j \in 1..Len(patients) :
        (/\ patients[i].clinic_id = patients[j].clinic_id
         /\ patients[i].phone = patients[j].phone)
        => i = j

(***************************************************************************)
(* C5: a Cancel that finds its appointment cancelled, completed or no_show *)
(* returns success=false and changes no field; a Cancel writes only after  *)
(* it has read status scheduled or confirmed, and its write sets status    *)
(* cancelled and records the reason and a cancellation timestamp; no       *)
(* completed or no_show appointment ever becomes cancelled.                *)
(***************************************************************************)
C5_CancelOnlyFromActive ==
    [][\A p \in Procs :
          LET id == req'[p].appointment_id IN
          /\ (/\ pc[p] = "idle"
              /\ Steps(p)
              /\ req'[p].op = "cancel"
              /\ Owns(req'[p].clinic_id, id)
              /\ appointments[id].status \in TerminalStatuses)
             => /\ pc'[p] = "done"
                /\ result'[p] = [success |-> FALSE,
                                 message |-> "Cannot cancel appointment with status",
                                 appointment_id |-> 0]
                /\ appointments' = appointments
          /\ (pc[p] = "cancel_update" /\ Steps(p))
             => /\ loc[p].appointment.status \in ActiveStatuses
                /\ appointments'[id].status = "cancelled"
                /\ appointments'[id].cancellation_reason = req[p].reason
                /\ appointments'[id].cancelled_at # appointments[id].cancelled_at
          /\ \A i \in 1..Len(appointments) :
                (/\ appointments[i].status # "cancelled"
                 /\ appointments'[i].status = "cancelled")
                => /\ appointments[i].status \in ActiveStatuses
                   /\ appointments'[i].cancellation_reason \in Reasons
                   /\ appointments'[i].cancelled_at > 0]_vars

\* a Cancel has been refused on an appointment in a terminal status
C5_Witness ==
    \E p \in Procs :
        /\ pc[p] = "done"
        /\ req[p].op = "cancel"
        /\ result[p].message = "Cannot cancel appointment with status"
        /\ Owns(req[p].clinic_id, req[p].appointment_id)
        /\ appointments[req[p].appointment_id].status \in TerminalStatuses

(***************************************************************************)
(* C6: a Reschedule that finds its appointment cancelled, completed or     *)
(* no_show returns success=false and leaves every field of it unchanged;   *)
(* a Reschedule writes only after it has read status scheduled or          *)
(* confirmed.                                                              *)
(***************************************************************************)
C6_RescheduleOnlyFromActive ==
    [][\A p \in Procs :
          LET id == req'[p].appointment_id IN
          /\ (/\ pc[p] = "idle"
              /\ Steps(p)
              /\ req'[p].op = "reschedule"
              /\ Owns(req'[p].clinic_id, id)
              /\ appointments[id].status \in TerminalStatuses)
             => /\ pc'[p] = "done"
                /\ result'[p] = [success |-> FALSE,
                                 message |-> "Cannot reschedule appointment with status",
                                 appointment_id |-> 0]
                /\ appointments' = appointments
          /\ (pc[p] = "reschedule_update" /\ Steps(p))
             => loc[p].appointment.status \in ActiveStatuses]_vars

\* a Reschedule has been refused on an appointment in a terminal status
C6_Witness ==
    \E p \in Procs :
        /\ pc[p] = "done"
        /\ req[p].op = "reschedule"
        /\ result[p].message = "Cannot reschedule appointment with status"
        /\ Owns(req[p].clinic_id, req[p].appointment_id)
        /\ appointments[req[p].appointment_id].status \in TerminalStatuses

(***************************************************************************)
(* C7: the conflict check of a Reschedule fails with the "already booked"  *)
(* message and writes nothing exactly when an active appointment other     *)
(* than the one being rescheduled holds the target (doctor, date, time);   *)
(* the appointment's own row never counts as a conflict.                   *)
(***************************************************************************)
C7_RescheduleConflictExcludesSelf ==
    [][\A p \in Procs :
          (pc[p] = "reschedule_check" /\ Steps(p))
          => LET id == req[p].appointment_id
                 others == ActiveAt(appointments[id].doctor_id,
                                    req[p].date, req[p].time) \ {id}
             IN  /\ appointments' = appointments
                 /\ IF others # {}
                    THEN /\ pc'[p] = "done"
                         /\ result'[p] =
                               [success |-> FALSE,
                                message |-> "The new time slot is already booked",
                                appointment_id |-> 0]
                    ELSE pc'[p] = "reschedule_update"]_vars

\* a Reschedule onto the appointment's own current slot has passed the
\* conflict check
C7_Witness ==
    \E p \in Procs :
        LET id == req[p].appointment_id IN
        /\ pc[p] = "reschedule_update"
        /\ IsActive(appointments[id])
        /\ appointments[id].date = req[p].date
        /\ appointments[id].time = ColumnTime(req[p].time)
        /\ loc[p].appointment.time = ColumnTime(req[p].time)

(***************************************************************************)
(* C8: the write of a Reschedule leaves reminder_sent false whatever it    *)
(* was before and leaves confirmation_sent and status as they were; the    *)
(* other steps of a Reschedule write nothing, and a Reschedule returns     *)
(* success only after that write.                                          *)
(***************************************************************************)
C8_RescheduleResetsReminderOnly ==
    [][\A p \in Procs :
          LET id == req[p].appointment_id IN
          /\ (pc[p] = "reschedule_update" /\ Steps(p))
             => /\ appointments'[id].reminder_sent = FALSE
                /\ appointments'[id].confirmation_sent =
                       appointments[id].confirmation_sent
                /\ appointments'[id].status = appointments[id].status
                /\ \A i \in 1..Len(appointments) :
                       i # id => appointments'[i] = appointments[i]
          /\ (pc[p] \in {"reschedule_check", "reschedule_notify"} /\ Steps(p))
             => appointments' = appointments
          /\ (/\ Steps(p)
              /\ pc'[p] = "done"
              /\ req'[p].op = "reschedule"
              /\ result'[p].success)
             => pc[p] = "reschedule_notify"]_vars

\* a Reschedule has written an appointment whose reminder and confirmation
\* had both been sent
C8_Witness ==
    \E p \in Procs :
        LET id == req[p].appointment_id IN
        /\ pc[p] = "reschedule_notify"
        /\ loc[p].appointment.reminder_sent
        /\ loc[p].appointment.confirmation_sent
        /\ ~appointments[id].reminder_sent
        /\ appointments[id].confirmation_sent
        /\ appointments[id].status = loc[p].appointment.status

(***************************************************************************)
(* C9: a call made for clinic c changes no appointment row of another      *)
(* clinic, and a Cancel or Reschedule whose appointment belongs to another *)
(* clinic returns "Appointment not found" without writing.                 *)
(***************************************************************************)
C9_ClinicIsolation ==
    [][\A p \in Procs :
          Steps(p)
          => /\ \A i \in 1..Len(appointments) :
                    appointments[i].clinic_id # req'[p].clinic_id
                    => appointments'[i] = appointments[i]
             /\ (/\ pc[p] = "idle"
                 /\ req'[p].op \in {"cancel", "reschedule"}
                 /\ req'[p].appointment_id \in 1..Len(appointments)
                 /\ ~Owns(req'[p].clinic_id, req'[p].appointment_id))
                => /\ pc'[p] = "done"
                   /\ result'[p] = [success |-> FALSE,
                                    message |-> "Appointment not found",
                                    appointment_id |-> 0]
                   /\ appointments' = appointments]_vars

\* a Cancel or Reschedule aimed at an active appointment of another clinic
\* has returned "Appointment not found"
C9_Witness ==
    \E p \in Procs :
        /\ pc[p] = "done"
        /\ req[p].op \in {"cancel", "reschedule"}
        /\ result[p].message = "Appointment not found"
        /\ req[p].appointment_id \in 1..Len(appointments)
        /\ appointments[req[p].appointment_id].clinic_id # req[p].clinic_id
        /\ IsActive(appointments[req[p].appointment_id])

(***************************************************************************)
(* C10: every appointment row belongs to the clinic that owns its doctor.  *)
(***************************************************************************)
C10_AppointmentClinicOwnsDoctor ==
    \A i \in 1..Len(appointments) :
        appointments[i].clinic_id = DoctorClinic[appointments[i].doctor_id]

(***************************************************************************)
(* C11: the step in which the notifier runs after the store write of a     *)
(* Book, Cancel or Reschedule always ends the call with success=true,      *)
(* whether the notification was delivered or not, and leaves the written   *)
(* appointment as it was: no row is removed and nothing but the            *)
(* confirmation flag of the row changes.                                   *)
(***************************************************************************)
C11_NotifierNeverFailsOperation ==
    [][\A p \in Procs :
          (/\ Steps(p)
           /\ pc[p] \in {"book_notify", "cancel_notify", "reschedule_notify"})
          => /\ pc'[p] = "done"
             /\ result'[p].success = TRUE
             /\ Len(appointments') = Len(appointments)
             /\ \A i \in 1..Len(appointments) :
                    [appointments'[i] EXCEPT !.confirmation_sent = FALSE] =
                    [appointments[i] EXCEPT !.confirmation_sent = FALSE]]_vars

\* a Book has returned success although its confirmation was not delivered
C11_Witness ==
    \E p \in Procs :
        /\ pc[p] = "done"
        /\ req[p].op = "book"
        /\ result[p].success
        /\ result[p].appointment_id \in 1..Len(appointments)
        /\ appointments[result[p].appointment_id].status = "scheduled"
        /\ ~appointments[result[p].appointment_id].confirmation_sent

(***************************************************************************)
(* Vocabulary of the availability properties.                              *)
(***************************************************************************)
\* the handlers that have answered an availability question
AvailabilityCalls ==
    {p \in Procs : pc[p] = "done" /\ req[p].op = "availability"}

\* text of the form HH:MM naming a time of day
IsHourMinute(text) ==
    /\ Len(text) = 5
    /\ text[3] = ":"
    /\ \A i \in {1, 2, 4, 5} : text[i] \in {Digits[k] : k \in 1..Len(Digits)}
    /\ 10 * DigitValue(text[1]) + DigitValue(text[2]) <= 23
    /\ 10 * DigitValue(text[4]) + DigitValue(text[5]) <= 59

\* minutes since midnight named by a text HH:MM
TextMinutes(text) ==
    (10 * DigitValue(text[1]) + DigitValue(text[2])) * 60
    + 10 * DigitValue(text[4]) + DigitValue(text[5])

\* the minute offsets of the slots a call returned
SlotStarts(p) == [i \in 1..Len(result[p].slots) |-> TextMinutes(result[p].slots[i])]

\* half-open intervals [a, b) and [c, d) overlap
Overlap(a, b, c, d) == a < d /\ c < b

\* the doctor row a call is about, when the clinic of the call owns it
AskedDoctor(p) == doctors[req[p].doctor_id]

OwnsDoctor(p) == AskedDoctor(p).clinic_id = req[p].clinic_id

\* the working-hours entry for the weekday of the asked date, if any
HasDayEntry(p) ==
    DayNames[(req[p].date % 7) + 1] \in DOMAIN AskedDoctor(p).working_hours

DayEntry(p) == AskedDoctor(p).working_hours[DayNames[(req[p].date % 7) + 1]]

\* the call is about an active doctor of the clinic on an enabled day whose
\* schedule is complete and well formed
OpenDay(p) ==
    /\ OwnsDoctor(p)
    /\ AskedDoctor(p).is_active
    /\ HasDayEntry(p)
    /\ {"enabled", "start", "end"} \subseteq DOMAIN DayEntry(p)
    /\ DayEntry(p).enabled
    /\ IsHourMinute(DayEntry(p).start)
    /\ IsHourMinute(DayEntry(p).end)
    /\ {"slot_duration", "buffer_time"} \subseteq DOMAIN AskedDoctor(p)
    /\ \A i \in 1..Len(AskedDoctor(p).break_times) :
          /\ IsHourMinute(AskedDoctor(p).break_times[i].start)
          /\ IsHourMinute(AskedDoctor(p).break_times[i].end)

\* the occupied intervals handed to the slot generator
OccupiedList(p) ==
    BookedSlots(req[p].doctor_id, req[p].date, AskedDoctor(p).slot_duration)
    \o BreakSlots(AskedDoctor(p).break_times).value
    \o BlockedSlots(req[p].doctor_id, req[p].date, req[p].clinic_id)

\* the cadence candidates of the window: start + k * (slot + buffer) that fit
Candidates(p) ==
    LET ws == TextMinutes(DayEntry(p).start)
        we == TextMinutes(DayEntry(p).end)
        sd == AskedDoctor(p).slot_duration
        step == sd + AskedDoctor(p).buffer_time
    IN  {ws + k * step : k \in {n \in 0..((we - ws) \div step) :
                                   ws + n * step + sd <= we}}

\* the candidates that overlap no interval of the list
FreeCandidates(p, occupied) ==
    {c \in Candidates(p) :
        \A i \in 1..Len(occupied) :
            ~Overlap(c, c + AskedDoctor(p).slot_duration,
                     occupied[i].start, occupied[i].end)}

(***************************************************************************)
(* C13: on an open day the slots returned are, in ascending order, exactly *)
(* the cadence candidates start + k*(slot_duration + buffer) that fit in   *)
(* the window and overlap no occupied interval under the half-open test;   *)
(* a rejected candidate neither shifts the cadence nor gets its gap filled.*)
(***************************************************************************)
C13_SlotsAreFreeCandidates ==
    \A p \in AvailabilityCalls :
        OpenDay(p)
        => LET starts == SlotStarts(p) IN
           /\ {starts[i] : i \in 1..Len(starts)} = FreeCandidates(p, OccupiedList(p))
           /\ \A i, j \in 1..Len(starts) : i < j => starts[i] < starts[j]

\* a call returned slots on both sides of a rejected candidate
C13_Witness ==
    \E p \in AvailabilityCalls :
        /\ OpenDay(p)
        /\ AskedDoctor(p).buffer_time > 0
        /\ \E c \in Candidates(p) \ FreeCandidates(p, OccupiedList(p)) :
              \E i, j \in 1..Len(result[p].slots) :
                  SlotStarts(p)[i] < c /\ c < SlotStarts(p)[j]

\* the active appointments of the asked doctor on the asked date
BookedOn(p) ==
    {i \in 1..Len(appointments) :
        /\ IsActive(appointments[i])
        /\ appointments[i].doctor_id = req[p].doctor_id
        /\ appointments[i].date = req[p].date}

\* the interval [t, t + d) of an appointment, in minutes of its day
AppointmentStart(i) == appointments[i].time[1] * 60 + appointments[i].time[2]

AppointmentEnd(i) == AppointmentStart(i) + appointments[i].duration_minutes

\* the length of the slots a call returned
SlotLength(p) ==
    IF "slot_duration" \in DOMAIN AskedDoctor(p)
    THEN AskedDoctor(p).slot_duration ELSE 30

\* the blocked-time rows that apply to the call: of its clinic, for its doctor
\* or for every doctor, with a range that intersects the asked date
BlocksFor(p) ==
    {i \in 1..Len(blocked_times) :
        /\ blocked_times[i].clinic_id = req[p].clinic_id
        /\ blocked_times[i].doctor_id \in {req[p].doctor_id, "null"}
        /\ blocked_times[i].start_datetime[1] <= req[p].date
        /\ \/ blocked_times[i].end_datetime[1] > req[p].date
           \/ /\ blocked_times[i].end_datetime[1] = req[p].date
              /\ blocked_times[i].end_datetime[2] # Midnight}

\* the part of such a row that lies on the asked date, in minutes of that day
BlockStart(p, i) ==
    IF blocked_times[i].start_datetime[1] < req[p].date THEN 0
    ELSE blocked_times[i].start_datetime[2].hour * 60
         + blocked_times[i].start_datetime[2].minute

BlockEnd(p, i) ==
    IF blocked_times[i].end_datetime[1] > req[p].date THEN 1440
    ELSE blocked_times[i].end_datetime[2].hour * 60
         + blocked_times[i].end_datetime[2].minute

\* something other than appointment i occupies part of [c, c + length)
OccupiedByOther(p, i, c) ==
    LET d == c + SlotLength(p) IN
    \/ \E j \in BookedOn(p) \ {i} :
          Overlap(c, d, AppointmentStart(j), AppointmentEnd(j))
    \/ \E j \in 1..Len(AskedDoctor(p).break_times) :
          Overlap(c, d, TextMinutes(AskedDoctor(p).break_times[j].start),
                  TextMinutes(AskedDoctor(p).break_times[j].end))
    \/ \E j \in BlocksFor(p) : Overlap(c, d, BlockStart(p, j), BlockEnd(p, j))

(***************************************************************************)
(* C14: no slot returned for a doctor and date overlaps the interval       *)
(* [t, t+d) of an active appointment of that doctor on that date, and on   *)
(* an open day the cadence candidate that starts exactly at t+d is         *)
(* returned when nothing else occupies it.                                 *)
(***************************************************************************)
C14_OccupiedSlotExcluded ==
    \A p \in AvailabilityCalls :
        \A i \in BookedOn(p) :
            /\ \A k \in 1..Len(result[p].slots) :
                  ~Overlap(SlotStarts(p)[k], SlotStarts(p)[k] + SlotLength(p),
                           AppointmentStart(i), AppointmentEnd(i))
            /\ (/\ OpenDay(p)
                /\ AppointmentEnd(i) \in Candidates(p)
                /\ ~OccupiedByOther(p, i, AppointmentEnd(i)))
               => \E k \in 1..Len(result[p].slots) :
                      SlotStarts(p)[k] = AppointmentEnd(i)

\* with an appointment at 10:00 for 30 minutes a call returned 09:30 and
\* 10:30 but not 10:00
C14_Witness ==
    \E p \in AvailabilityCalls :
        /\ \E i \in BookedOn(p) :
              AppointmentStart(i) = 600 /\ AppointmentEnd(i) = 630
        /\ \E k \in 1..Len(result[p].slots) : SlotStarts(p)[k] = 570
        /\ \E k \in 1..Len(result[p].slots) : SlotStarts(p)[k] = 630
        /\ \A k \in 1..Len(result[p].slots) : SlotStarts(p)[k] # 600

(***************************************************************************)
(* C15: no slot returned overlaps the part, on the asked date, of a        *)
(* blocked-time row of the clinic that is for the asked doctor or for      *)
(* every doctor, also when the row starts before the date or ends after    *)
(* it.                                                                     *)
(***************************************************************************)
C15_BlockedTimeExcluded ==
    \A p \in AvailabilityCalls :
        \A i \in BlocksFor(p), k \in 1..Len(result[p].slots) :
            ~Overlap(SlotStarts(p)[k], SlotStarts(p)[k] + SlotLength(p),
                     BlockStart(p, i), BlockEnd(p, i))

(***************************************************************************)
(* C16: for an active doctor of the clinic, a date whose weekday has no    *)
(* entry in working_hours or an entry with enabled false gets              *)
(* available=false and slots=[] with the closed-day message, whatever      *)
(* appointments, breaks and blocked times exist.                           *)
(***************************************************************************)
C16_ClosedDay ==
    \A p \in AvailabilityCalls :
        (/\ OwnsDoctor(p)
         /\ AskedDoctor(p).is_active
         /\ \/ ~HasDayEntry(p)
            \/ "enabled" \in DOMAIN DayEntry(p) /\ ~DayEntry(p).enabled)
        => /\ result[p].available = FALSE
           /\ result[p].slots = << >>
           /\ result[p].message = "Doctor not available on this day"

\* a closed-day answer was given while appointments, breaks and blocked times
\* exist
C16_Witness ==
    \E p \in AvailabilityCalls :
        /\ OwnsDoctor(p)
        /\ ~HasDayEntry(p)
        /\ result[p].message = "Doctor not available on this day"
        /\ Len(appointments) > 0
        /\ Len(blocked_times) > 0
        /\ Len(AskedDoctor(p).break_times) > 0

(***************************************************************************)
(* C18: for the window 09:00-17:00 with 30-minute slots, a 5-minute buffer *)
(* and nothing occupied, exactly 13 slots are returned, the i-th at minute *)
(* 540 + 35*(i-1), the last one not after minute 990.                      *)
(***************************************************************************)
C18_ThirteenSlots ==
    \A p \in AvailabilityCalls :
        (/\ OpenDay(p)
         /\ TextMinutes(DayEntry(p).start) = 540
         /\ TextMinutes(DayEntry(p).end) = 1020
         /\ AskedDoctor(p).slot_duration = 30
         /\ AskedDoctor(p).buffer_time = 5
         /\ AskedDoctor(p).break_times = << >>
         /\ BookedOn(p) = {}
         /\ blocked_times = << >>)
        => /\ Len(result[p].slots) = 13
           /\ \A i \in 1..13 : SlotStarts(p)[i] = 540 + 35 * (i - 1)
           /\ result[p].slots[1] = <<"0", "9", ":", "0", "0">>
           /\ result[p].slots[2] = <<"0", "9", ":", "3", "5">>
           /\ SlotStarts(p)[13] <= 990
           /\ result[p].available

\* such a call has been answered
C18_Witness ==
    \E p \in AvailabilityCalls :
        /\ OpenDay(p)
        /\ TextMinutes(DayEntry(p).start) = 540
        /\ TextMinutes(DayEntry(p).end) = 1020
        /\ AskedDoctor(p).slot_duration = 30
        /\ AskedDoctor(p).buffer_time = 5
        /\ AskedDoctor(p).break_times = << >>
        /\ BookedOn(p) = {}
        /\ blocked_times = << >>
        /\ Len(result[p].slots) = 13

\* one or two digits naming a number up to max
IsNumeral(text, max) ==
    /\ Len(text) \in {1, 2}
    /\ \A i \in 1..Len(text) : text[i] \in {Digits[k] : k \in 1..Len(Digits)}
    /\ (IF Len(text) = 1 THEN DigitValue(text[1])
        ELSE 10 * DigitValue(text[1]) + DigitValue(text[2])) <= max

\* text hour:minute naming a time of day, zero padded or not
NamesHourMinute(text) ==
    \E k \in 2..(Len(text) - 1) :
        /\ text[k] = ":"
        /\ IsNumeral(SubSeq(text, 1, k - 1), 23)
        /\ IsNumeral(SubSeq(text, k + 1, Len(text)), 59)

\* text that names no time of day, neither as hour:minute nor as
\* hour:minute:second
Malformed(text) ==
    /\ ~NamesHourMinute(text)
    /\ ~\E k \in 4..(Len(text) - 1) :
           /\ text[k] = ":"
           /\ NamesHourMinute(SubSeq(text, 1, k - 1))
           /\ IsNumeral(SubSeq(text, k + 1, Len(text)), 59)

\* the schedule the call has to read holds a start, end or break time that is
\* malformed
CorruptSchedule(p) ==
    /\ OwnsDoctor(p)
    /\ AskedDoctor(p).is_active
    /\ HasDayEntry(p)
    /\ "enabled" \in DOMAIN DayEntry(p)
    /\ DayEntry(p).enabled
    /\ \/ "start" \in DOMAIN DayEntry(p) /\ Malformed(DayEntry(p).start)
       \/ "end" \in DOMAIN DayEntry(p) /\ Malformed(DayEntry(p).end)
       \/ \E i \in 1..Len(AskedDoctor(p).break_times) :
             \/ Malformed(AskedDoctor(p).break_times[i].start)
             \/ Malformed(AskedDoctor(p).break_times[i].end)

(***************************************************************************)
(* C20: when the start, the end or a break time of the schedule for the    *)
(* asked weekday is malformed, the call returns available=false with no    *)
(* slots and the error message; it offers no slot computed from default    *)
(* hours.                                                                  *)
(***************************************************************************)
C20_CorruptScheduleGivesNoSlots ==
    \A p \in AvailabilityCalls :
        CorruptSchedule(p)
        => /\ result[p].available = FALSE
           /\ result[p].slots = << >>
           /\ result[p].message = "Error checking availability"

\* a call met a malformed start time and returned the error answer
C20_Witness ==
    \E p \in AvailabilityCalls :
        /\ CorruptSchedule(p)
        /\ Malformed(DayEntry(p).start)
        /\ result[p].message = "Error checking availability"

\* the calls of the end-to-end sequence, as far as they have been received
TenOClock == [hour |-> 10, minute |-> 0, second |-> 0, microsecond |-> 0]

IsAvailabilityCall(p) ==
    /\ req[p].op = "availability"
    /\ req[p].doctor_id = "dA"
    /\ req[p].date = 1

IsBookAtTen(p) ==
    /\ req[p].op = "book"
    /\ req[p].doctor_id = "dA"
    /\ req[p].date = 1
    /\ req[p].time = TenOClock

Script(k) ==
    /\ k >= 1 => IsAvailabilityCall(1)
    /\ k >= 2 => IsBookAtTen(2)
    /\ k >= 3 => IsBookAtTen(3)
    /\ k >= 4 => pc[2] = "done" /\ req[4].op = "cancel"
                 /\ req[4].appointment_id = result[2].appointment_id
    /\ k >= 5 => IsAvailabilityCall(5)

Returned(k) == pc[k] = "done" /\ Script(k)

(***************************************************************************)
(* C17: against a doctor working 09:00-17:00 with 30-minute slots, no      *)
(* buffer and no bookings, the sequence checkAvailability, Book 10:00,     *)
(* Book 10:00 again, Cancel the first appointment, checkAvailability       *)
(* yields: 16 slots 09:00..16:30; success with a row of status scheduled;  *)
(* the slot conflict; status cancelled; a slot list holding 10:00 again.   *)
(***************************************************************************)
C17_EndToEndSequence ==
    /\ Returned(1)
       => /\ Len(result[1].slots) = 16
          /\ \A i \in 1..16 : SlotStarts(1)[i] = 540 + 30 * (i - 1)
    /\ Returned(2)
       => /\ result[2].success
          /\ result[2].appointment_id \in 1..Len(appointments)
          /\ pc[3] = "idle"
             => appointments[result[2].appointment_id].status = "scheduled"
    /\ Returned(3)
       => /\ ~result[3].success
          /\ result[3].message = "This time slot is already booked"
          /\ pc[4] = "idle"
             => appointments[result[2].appointment_id].status = "scheduled"
    /\ Returned(4)
       => /\ result[4].success
          /\ appointments[result[2].appointment_id].status = "cancelled"
    /\ Returned(5)
       => /\ \E i \in 1..Len(result[5].slots) : SlotStarts(5)[i] = 600
          /\ Len(result[5].slots) = 16

\* the five calls of the sequence have all returned
C17_Witness ==
    /\ Returned(5)
    /\ result[4].success
    /\ \E i \in 1..Len(result[5].slots) : SlotStarts(5)[i] = 600

\* the calls of get_patient_appointments that returned
ListCalls == {p \in Procs : pc[p] = "done" /\ req[p].op = "list"}

\* the patient rows of the clinic and phone a call names
NamedPatients(p) ==
    {i \in 1..Len(patients) :
        patients[i].clinic_id = req[p].clinic_id /\ patients[i].phone = req[p].phone}

\* the ids of the rows a call returned
ListedIds(p) == {result[p].appointments[i].id : i \in 1..Len(result[p].appointments)}

\* an appointment of the clinic that is active and today or later
IsUpcoming(row, clinic_id) ==
    /\ row.clinic_id = clinic_id
    /\ row.status \in ActiveStatuses
    /\ row.date >= Today

(***************************************************************************)
(* C19: a ListUpcoming call returns only appointments of a patient named   *)
(* by its clinic and phone, of that clinic, with status scheduled or       *)
(* confirmed and date today or later, each once, ascending by (date,       *)
(* time); when the clinic and phone name one patient it returns all of     *)
(* them.                                                                   *)
(***************************************************************************)
C19_ListUpcomingExact ==
    \A p \in ListCalls :
        LET listed == result[p].appointments IN
        /\ \A i \in 1..Len(listed) :
              /\ listed[i].id \in 1..Len(appointments)
              /\ listed[i] = [id |-> listed[i].id] @@ appointments[listed[i].id]
              /\ listed[i].patient_id \in NamedPatients(p)
              /\ IsUpcoming(listed[i], req[p].clinic_id)
        /\ \A i, j \in 1..Len(listed) :
              i < j => /\ listed[i].id # listed[j].id
                       /\ \/ listed[i].date < listed[j].date
                          \/ /\ listed[i].date = listed[j].date
                             /\ listed[i].time[1] * 60 + listed[i].time[2]
                                    <= listed[j].time[1] * 60 + listed[j].time[2]
        /\ Cardinality(NamedPatients(p)) = 1
           => /\ result[p].success
              /\ ListedIds(p) =
                    {i \in 1..Len(appointments) :
                        /\ appointments[i].patient_id \in NamedPatients(p)
                        /\ IsUpcoming(appointments[i], req[p].clinic_id)}

\* a call listed two appointments of different days while the store also
\* held a row of the patient that is not upcoming
C19_Witness ==
    \E p \in ListCalls :
        /\ Cardinality(NamedPatients(p)) = 1
        /\ Len(result[p].appointments) = 2
        /\ result[p].appointments[1].date < result[p].appointments[2].date
        /\ \E i \in 1..Len(appointments) :
              /\ appointments[i].patient_id \in NamedPatients(p)
              /\ ~IsUpcoming(appointments[i], req[p].clinic_id)

\* the labels of a handler that is idle, at a store or notifier call, or has
\* returned
HandlerLabels ==
    {"idle", "done", "book_notify", "cancel_notify", "reschedule_notify"}
    \cup {"book_patient_insert", "book_check", "book_insert", "cancel_update",
          "reschedule_check", "reschedule_update", "list_select"}

\* a dict with a flag, and with a message unless it is the list of a
\* successful get_patient_appointments
Structured(res) ==
    /\ \/ "success" \in DOMAIN res /\ res.success \in BOOLEAN
       \/ "available" \in DOMAIN res /\ res.available \in BOOLEAN
    /\ \/ "message" \in DOMAIN res /\ res.message # "none"
       \/ /\ "success" \in DOMAIN res
          /\ res.success
          /\ "appointments" \in DOMAIN res

\* the dict reports a failure and says which
ReportsFailure(res) ==
    /\ \/ "success" \in DOMAIN res /\ ~res.success
       \/ "available" \in DOMAIN res /\ ~res.available
    /\ "message" \in DOMAIN res
    /\ res.message # "none"

ErrorMessages ==
    {"Error booking appointment", "Error cancelling appointment",
     "Error rescheduling appointment", "Error checking availability",
     "Error fetching appointments"}

(***************************************************************************)
(* C12: whatever store call or notifier fails, no exception leaves a       *)
(* handler: a handler is idle, at one of its calls, or has returned; what  *)
(* it returned is a dict with a flag and a message, and when a store call  *)
(* raised the flag is false and the message is the handler's error         *)
(* message.                                                                *)
(***************************************************************************)
C12_FailuresReturnStructuredResult ==
    \A p \in DOMAIN pc :
        /\ pc[p] \in HandlerLabels
        /\ pc[p] = "done"
           => /\ Structured(result[p])
              /\ ("message" \in DOMAIN result[p]
                  /\ result[p].message \in ErrorMessages)
                 => ReportsFailure(result[p])
        /\ pc[p] # "done" => result[p] = NoResult

\* a Book call whose appointment insert raised after its patient insert went
\* through returned the error dict, and a later call returned as well
C12_Witness ==
    \E p, q \in DOMAIN pc :
        /\ p < q
        /\ pc[p] = "done" /\ pc[q] = "done"
        /\ req[p].op = "book"
        /\ result[p].message = "Error booking appointment"
        /\ Len(patients) > 0
        /\ req[q].op = "list"
        /\ result[q].message = "Error fetching appointments"

\* call p returns from check_doctor_availability in this step
AvailabilityReturns(p) ==
    /\ pc[p] # "done"
    /\ pc'[p] = "done"
    /\ req'[p].op = "availability"

(***************************************************************************)
(* C21: a step in which check_doctor_availability returns leaves the       *)
(* patients, appointments, doctors and blocked_times tables as they were,  *)
(* whatever it returns, and a call that repeats the arguments of an        *)
(* earlier call, with only availability calls in between, returns what     *)
(* that call returned.                                                     *)
(***************************************************************************)
C21_AvailabilityWritesNothing ==
    [][\A p \in DOMAIN pc :
          AvailabilityReturns(p)
          => /\ patients' = patients
             /\ appointments' = appointments
             /\ doctors' = doctors
             /\ blocked_times' = blocked_times
             /\ \A q \in DOMAIN pc :
                   (/\ q < p
                    /\ pc[q] = "done"
                    /\ req[q] = req'[p]
                    /\ \A k \in DOMAIN pc :
                          (q < k /\ k < p) => req[k].op = "availability")
                   => result'[p] = result[q]]_vars

\* the same question was asked twice and answered with slots both times, on
\* a store that holds an appointment and a blocked time
C21_Witness ==
    /\ \A p \in DOMAIN pc : pc[p] = "done" /\ req[p].op = "availability"
    /\ \E p, q \in DOMAIN pc :
          /\ p < q
          /\ req[p] = req[q]
          /\ result[p].available
          /\ result[q] = result[p]
    /\ Len(appointments) > 0
    /\ Len(blocked_times) > 0

\* the request call p holds carries the configured secret
CarriesSecret(p) ==
    /\ settings.vapi_webhook_secret # "None"
    /\ req[p].x_vapi_secret = settings.vapi_webhook_secret

\* the webhook request of call p is taken up in this step
WebhookHandled(p) == pc[p] = "received" /\ pc'[p] # "received"

(***************************************************************************)
(* C22: a webhook request whose x-vapi-secret header is absent or is not   *)
(* the configured secret is answered with HTTP 401 in the step that takes  *)
(* it up: the request is finished, no handler is entered, and the          *)
(* appointments, patients and call_logs tables and the outbox stay as      *)
(* they were.                                                              *)
(***************************************************************************)
C22_BadSecretRejected ==
    [][\A p \in DOMAIN pc :
          (WebhookHandled(p) /\ ~CarriesSecret(p))
          => /\ pc'[p] = "done"
             /\ result'[p] = [status_code |-> 401, detail |-> "Invalid webhook secret"]
             /\ appointments' = appointments
             /\ patients' = patients
             /\ call_logs' = call_logs
             /\ outbox' = outbox]_vars

\* a request without the header was answered 401 after a request with the
\* right secret had booked an appointment
C22_Witness ==
    \E p, q \in DOMAIN pc :
        /\ p < q
        /\ pc[p] = "done"
        /\ "op" \in DOMAIN req[p]
        /\ req[p].op = "book"
        /\ result[p].success
        /\ pc[q] = "done"
        /\ "x_vapi_secret" \in DOMAIN req[q]
        /\ req[q].x_vapi_secret = "None"
        /\ "status_code" \in DOMAIN result[q]
        /\ result[q].status_code = 401

\* the calls of verify_retell_signature that returned
VerifyCalls == {p \in DOMAIN pc : pc[p] = "done" /\ req[p].op = "verify"}

\* the header of call p is timestamped and its digest is the HMAC of
\* "<timestamp>.<body>" under the configured key
CorrectTimestamped(p) ==
    /\ req[p].api_key # ""
    /\ req[p].signature.shape = "t=,v="
    /\ req[p].signature.digest.key = req[p].api_key
    /\ req[p].signature.digest.msg.body = req[p].body
    /\ req[p].signature.digest.msg.timestamp = req[p].signature.timestamp

SucceededCancels(i) ==
    {p \in DOMAIN pc :
        /\ pc[p] = "done"
        /\ req[p].op = "cancel"
        /\ req[p].appointment_id = i
        /\ result[p].success}

(***************************************************************************)
(* C24: the cancellation fields of an appointment (status cancelled,       *)
(* reason, timestamp) are written only in a step before which its status   *)
(* is scheduled or confirmed, and at most one Cancel call on an            *)
(* appointment returns success.                                            *)
(***************************************************************************)
C24_CancelWritesOnce ==
    [][\A i \in 1..Len(appointments) :
          /\ appointments'[i].cancelled_at # appointments[i].cancelled_at
             => appointments[i].status \in ActiveStatuses
          /\ \A p, q \in DOMAIN pc :
                (/\ pc'[p] = "done" /\ pc'[q] = "done"
                 /\ req'[p].op = "cancel" /\ req'[q].op = "cancel"
                 /\ req'[p].appointment_id = i /\ req'[q].appointment_id = i
                 /\ result'[p].success /\ result'[q].success)
                => p = q]_vars

(***************************************************************************)
(* C29: no step changes the date or the time of an appointment whose       *)
(* status is cancelled.                                                    *)
(***************************************************************************)
C29_CancelledNeverMoves ==
    [][\A i \in 1..Len(appointments) :
          appointments[i].status = "cancelled"
          => /\ appointments'[i].date = appointments[i].date
             /\ appointments'[i].time = appointments[i].time]_vars

\* the Book calls that returned the slot conflict
RejectedBooks ==
    {p \in DOMAIN pc :
        /\ pc[p] = "done"
        /\ req[p].op = "book"
        /\ result[p].message = "This time slot is already booked"}

\* no handler is between two store calls
Quiescent == \A p \in DOMAIN pc : pc[p] \in {"idle", "done"}

(***************************************************************************)
(* C25: a Book rejected with the slot conflict creates no patient row:     *)
(* whenever no call is in progress, every patient row for the clinic and   *)
(* phone of a rejected Book is the patient of some appointment, that is,   *)
(* it was created by a Book that went on to insert its appointment (or was *)
(* there from the start).                                                  *)
(***************************************************************************)
C25_RejectedBookCreatesNoPatient ==
    Quiescent
    => \A p \in RejectedBooks :
          \A i \in 1..Len(patients) :
              (patients[i].clinic_id = req[p].clinic_id /\ patients[i].phone = req[p].phone)
              => \E j \in 1..Len(appointments) : appointments[j].patient_id = i

(***************************************************************************)
(* C27: every appointment booked without an explicit duration is stored    *)
(* with duration_minutes equal to the slot_duration of its doctor.         *)
(***************************************************************************)
C27_DurationIsDoctorSlot ==
    \A i \in 1..Len(appointments) :
        appointments[i].duration_minutes
            = doctors[appointments[i].doctor_id].slot_duration

\* the half-open interval of appointment row a, in minutes of its date
RowStart(a) == a.time[1] * 60 + a.time[2]

RowEnd(a) == RowStart(a) + a.duration_minutes

(***************************************************************************)
(* C26: no two appointments of one doctor on one date with status          *)
(* scheduled or confirmed have overlapping intervals                       *)
(* [time, time + duration).                                                *)
(***************************************************************************)
C26_NoOverlappingActive ==
    \A i, j \in 1..Len(appointments) :
        (/\ i < j
         /\ IsActive(appointments[i])
         /\ IsActive(appointments[j])
         /\ appointments[i].doctor_id = appointments[j].doctor_id
         /\ appointments[i].date = appointments[j].date)
        => ~(/\ RowStart(appointments[i]) < RowEnd(appointments[j])
             /\ RowStart(appointments[j]) < RowEnd(appointments[i]))

NotifyLabels == {"book_notify", "cancel_notify", "reschedule_notify"}

\* the handler of call p invokes the notifier in this step
NotifierInvoked(p) == pc[p] \in NotifyLabels /\ pc'[p] # pc[p]

\* the store holds what call p was asked to write
MutationWritten(p) ==
    LET id == IF req[p].op = "book" THEN loc[p].appointment_id
              ELSE req[p].appointment_id
    IN  /\ id \in 1..Len(appointments)
        /\ req[p].op = "book"
           => /\ appointments[id].doctor_id = req[p].doctor_id
              /\ appointments[id].date = req[p].date
              /\ appointments[id].time = ColumnTime(req[p].time)
              /\ appointments[id].status = "scheduled"
        /\ req[p].op = "cancel"
           => /\ appointments[id].status = "cancelled"
              /\ appointments[id].cancellation_reason = req[p].reason
        /\ req[p].op = "reschedule"
           => /\ appointments[id].date = req[p].date
              /\ appointments[id].time = ColumnTime(req[p].time)

(***************************************************************************)
(* C28: a handler invokes the notifier only when the mutation it was asked *)
(* for is in the store; the step that invokes it is the handler's last     *)
(* one, whether the delivery succeeded or not, and returns success; a      *)
(* call that returns failure has not invoked the notifier.                 *)
(***************************************************************************)
C28_NotifierAfterWriteOnce ==
    [][\A p \in DOMAIN pc :
          /\ NotifierInvoked(p)
             => /\ MutationWritten(p)
                /\ pc'[p] = "done"
                /\ result'[p].success
          /\ (/\ pc[p] # "done"
              /\ pc'[p] = "done"
              /\ "success" \in DOMAIN result'[p]
              /\ ~result'[p].success)
             => pc[p] \notin NotifyLabels]_vars

\* a Reschedule that wrote and notified has returned, and so has a call whose
\* store call raised
C28_Witness ==
    \E p, q \in DOMAIN pc :
        /\ pc[p] = "done"
        /\ req[p].op = "reschedule"
        /\ result[p].success
        /\ appointments[req[p].appointment_id].time = ColumnTime(req[p].time)
        /\ pc[q] = "done"
        /\ "message" \in DOMAIN result[q]
        /\ result[q].message = "Error cancelling appointment"

\* the reminders delivered for appointment id
RemindersOf(id) ==
    {i \in 1..Len(outbox) : outbox[i] = ReminderMessage(id)}

(***************************************************************************)
(* C30: at most one reminder is delivered per appointment (no Reschedule   *)
(* takes place): none for an appointment whose reminder_sent was set, and  *)
(* never two by overlapping runs of the sweep or of the manual send.       *)
(***************************************************************************)
C30_AtMostOneReminder ==
    \A id \in 1..Len(appointments) : Cardinality(RemindersOf(id)) <= 1

====
